---- MODULE Spec2Model ----
(***************************************************************************)
(* Event indexer and webhook outbox of the payment gateway backend.        *)
(*                                                                         *)
(* The ledger (PaymentGateway.sol) appends one log per block.  The         *)
(* indexer (EventIndexer) polls the ledger, stores every decoded log in    *)
(* event_logs, projects it into merchants / payment_intents, creates       *)
(* webhook_deliveries and sends them, and finally persists                 *)
(* indexer_state.last_indexed_block.                                       *)
(*                                                                         *)
(* JavaScript runs one callback at a time: a sync pass gives up control    *)
(* only at an await.  A pass position (pc) is either an await position     *)
(* (AwaitPcs) or a position inside a synchronous section (SyncPcs); while  *)
(* one pass is inside a synchronous section nothing else of the process    *)
(* runs.  The process may be killed between any two statements (Crash):    *)
(* every SQL statement is committed on its own, no transaction is opened   *)
(* anywhere in the source.  The tables declare foreign keys and the source *)
(* sets no pragma for them: whether they are enforced is decided by the    *)
(* SQLite build, so an insert that breaks one may succeed or throw.        *)
(***************************************************************************)
EXTENDS Integers, Sequences, FiniteSets, TLC

\* ---------------------------------------------------------------- bounds
MaxHeight == 4        \* blocks mined on the ledger
MaxPasses == 2        \* syncEvents calls that may be in flight together
MaxFaults == 1        \* errors and process kills injected in one behaviour
MaxOverlaps == 1      \* timer ticks that fire while a pass is in flight
MaxWebhooks == 1      \* webhook_configs rows registered in one behaviour

\* ------------------------------------------------------ program constants
lookbackWindow == 1000
batchSize == 1000
MAX_RETRY_ATTEMPTS == 5
RETRY_DELAYS == <<60, 300, 900, 3600, 7200>>

\* an argument an event does not carry
None == "-"

\* Amounts and totals are uint256 on the ledger and decimal strings in the
\* database.  The number k * 2^63 + off is written [k |-> k, off |-> off],
\* with off small against 2^63 and off >= 0 when k = 0.
Num(k, off) == [k |-> k, off |-> off]
Plus(x, y) == Num(x.k + y.k, x.off + y.off)

Merchants == {"m1"}
PaymentIds == {"p1"}
\* the arguments every payment of Spec and WebhookSpec carries
Args == [payer |-> "c1", amount |-> Num(0, 100), platformFee |-> 1]
\* the amounts of the payments of HandlerSpec: 100, 2^63 - 100, 2^63 + 1
Amounts == {Num(0, 100), Num(1, -100), Num(1, 1)}
StartBlocks == {0, 1}

\* a NULL column is <<>>, a set column is <<value>>
Null == <<>>
Some(v) == <<v>>
Pending == "Pending"
Completed == "Completed"
Expired == "Expired"
Refunded == "Refunded"
Cancelled == "Cancelled"
PaymentStatus == {Pending, Completed, Expired, Refunded, Cancelled}

EventNames == {"MerchantRegistered", "MerchantDeactivated", "MerchantReactivated",
               "PaymentIntentCreated", "PaymentCompleted", "PaymentRefunded",
               "PaymentExpired", "PaymentCancelled"}

VARIABLES
    chain,              \* ledger: chain[b] is the log of block b (head = Len(chain))
    cMerchants,         \* contract storage: merchants[m]
    cIntents,           \* contract storage: paymentIntents[p] (merchant, amount, status)
    startBlock,         \* EventIndexer.startBlock (START_BLOCK)
    merchants,          \* table merchants
    payment_intents,    \* table payment_intents
    event_logs,         \* table event_logs: number of rows per (block, tx, event, args)
    webhook_configs,    \* table webhook_configs
    webhook_deliveries, \* table webhook_deliveries (row id = index)
    indexer_state,      \* table indexer_state: <<>> or <<last_indexed_block>>
    isRunning,          \* EventIndexer.isRunning
    timerSet,           \* the setInterval of start() is installed
    pass,               \* the syncEvents calls in flight
    clock,              \* Date.now() / 1000, in the resolution of the retry worker
    endpoint,           \* the merchant's webhook endpoint: "down" fails every request
    calls,              \* WebhookSpec: the triggerWebhook call and the retry-worker ticks in flight
    received,           \* requests axios.post has sent, per webhook_deliveries row
    faults,             \* injected errors so far
    crashes,            \* process kills so far
    overlaps,           \* timer ticks that fired while a pass was in flight
    gateway,            \* ContractSpec: the storage of PaymentGateway, the token and block time
    verify,             \* SignSpec: the last call of verifySignature and what it returned
    sync,               \* RangeSpec: the batches and checkpoint writes of one syncEvents call
    polling             \* LifecycleSpec: the interval timers and syncEvents calls of one EventIndexer

ledgerVars == <<chain, cMerchants, cIntents>>
dbVars == <<merchants, payment_intents, event_logs, webhook_deliveries, indexer_state>>
procVars == <<isRunning, timerSet, pass>>
vars == <<chain, cMerchants, cIntents, startBlock, merchants, payment_intents,
          event_logs, webhook_configs, webhook_deliveries, indexer_state,
          isRunning, timerSet, pass, clock, endpoint, calls, received,
          faults, crashes, overlaps, gateway, verify, sync, polling>>
workerVars == <<clock, endpoint, calls, received>>

Min(a, b) == IF a < b THEN a ELSE b

\* ------------------------------------------------------------- the ledger
\* One action per event of PaymentGateway.sol: the guard is the conjunction of
\* the checks the emitting function makes before it emits, the update is the
\* storage the function writes.  Block time is not modelled: whether a
\* Pending intent is past its expiry is left open, so both PaymentCompleted
\* and PaymentExpired are possible for it.
Log(name, p, m) == [name |-> name, paymentId |-> p, merchant |-> m, amount |-> None]

MerchantRegistered(m) ==
    /\ cMerchants[m] = "none"
    /\ cMerchants' = [cMerchants EXCEPT ![m] = "active"]
    /\ chain' = Append(chain, Log("MerchantRegistered", None, m))
    /\ UNCHANGED cIntents

MerchantDeactivated(m) ==
    /\ cMerchants[m] # "none"
    /\ cMerchants' = [cMerchants EXCEPT ![m] = "inactive"]
    /\ chain' = Append(chain, Log("MerchantDeactivated", None, m))
    /\ UNCHANGED cIntents

MerchantReactivated(m) ==
    /\ cMerchants[m] # "none"
    /\ cMerchants' = [cMerchants EXCEPT ![m] = "active"]
    /\ chain' = Append(chain, Log("MerchantReactivated", None, m))
    /\ UNCHANGED cIntents

PaymentIntentCreated(p, m, amount) ==
    /\ cMerchants[m] = "active"
    /\ p \notin DOMAIN cIntents
    /\ cIntents' = (p :> [merchant |-> m, amount |-> amount, status |-> Pending])
                       @@ cIntents
    /\ chain' = Append(chain, Log("PaymentIntentCreated", p, m))
    /\ UNCHANGED cMerchants

PaymentCompleted(p) ==
    /\ p \in DOMAIN cIntents
    /\ cIntents[p].status = Pending
    /\ cMerchants[cIntents[p].merchant] = "active"
    /\ cIntents' = [cIntents EXCEPT ![p].status = Completed]
    /\ chain' = Append(chain, [Log("PaymentCompleted", p, cIntents[p].merchant)
                                  EXCEPT !.amount = cIntents[p].amount])
    /\ UNCHANGED cMerchants

PaymentRefunded(p) ==
    /\ p \in DOMAIN cIntents
    /\ cIntents[p].status = Completed
    /\ cIntents' = [cIntents EXCEPT ![p].status = Refunded]
    /\ chain' = Append(chain, Log("PaymentRefunded", p, cIntents[p].merchant))
    /\ UNCHANGED cMerchants

PaymentCancelled(p) ==
    /\ p \in DOMAIN cIntents
    /\ cIntents[p].status = Pending
    /\ cIntents' = [cIntents EXCEPT ![p].status = Cancelled]
    /\ chain' = Append(chain, Log("PaymentCancelled", p, cIntents[p].merchant))
    /\ UNCHANGED cMerchants

PaymentExpired(p) ==
    /\ p \in DOMAIN cIntents
    /\ cIntents[p].status = Pending
    /\ cIntents' = [cIntents EXCEPT ![p].status = Expired]
    /\ chain' = Append(chain, Log("PaymentExpired", p, None))
    /\ UNCHANGED cMerchants

\* ----------------------------------------------------------- the database
\* getLastIndexedBlock: row?.last_indexed_block || 0
getLastIndexedBlock == IF indexer_state = <<>> THEN 0 ELSE indexer_state[1]

\* updateLastIndexedBlock: INSERT ... ON CONFLICT(id) DO UPDATE, no comparison
\* with the stored value
updateLastIndexedBlock(blockNumber) == <<blockNumber>>

\* storeEventLog: a plain INSERT; event_logs has no unique index (only the
\* autoincrement id), so a second insert of the same log adds a second row.
\* The row is identified here by the block of its log, which determines
\* (block_number, transaction_hash, event_name, args).
storeEventLog(logs, b) == [logs EXCEPT ![b] = @ + 1]

\* handleMerchantRegistered: INSERT OR REPLACE, is_active 1, total '0'
handleMerchantRegistered(ms, m) ==
    (m :> [isActive |-> TRUE, totalReceived |-> Num(0, 0)]) @@ ms

\* handleMerchantDeactivated / handleMerchantReactivated: UPDATE ... WHERE address
setMerchantActive(ms, m, active) ==
    IF m \notin DOMAIN ms THEN ms ELSE [ms EXCEPT ![m].isActive = active]

\* handlePaymentIntentCreated: INSERT OR REPLACE of the nine listed columns;
\* payer, paid_at and platform_fee are not listed and become NULL
handlePaymentIntentCreated(pis, p, m, b) ==
    (p :> [merchant |-> m, status |-> Pending, payer |-> Null, paidAt |-> Null,
           platformFee |-> Null, blockNumber |-> b]) @@ pis

\* handlePaymentCompleted, first statement: UPDATE payment_intents SET status,
\* payer, paid_at, platform_fee WHERE payment_id (no condition on the status)
handlePaymentCompleted(pis, p, b) ==
    IF p \notin DOMAIN pis THEN pis
    ELSE [pis EXCEPT ![p].status = Completed, ![p].payer = Some(Args.payer),
                     ![p].paidAt = Some(b), ![p].platformFee = Some(Args.platformFee)]

\* SQLite's INTEGER is a signed 64-bit integer: the numbers below 2^63
FitsInteger(x) == x.k = 0 \/ (x.k = 1 /\ x.off < 0)

\* a REAL stored in a TEXT column: the 15-digit rendering of a double, kept
\* here by the k of the number it renders ('9.22337203685478e+18' for k = 1,
\* '1.84467440737096e+19' for k = 2)
Real(k) == [real |-> k]
IsReal(x) == "real" \in DOMAIN x
LeadingDigit == <<9, 1>>

\* CAST(text AS INTEGER): the integer the text starts with
CastInteger(x) == IF IsReal(x) THEN Num(0, LeadingDigit[x.real]) ELSE x

\* CAST(total_payments_received AS INTEGER) + ?, with the amount bound as
\* text: an INTEGER when the amount and the sum fit one, a REAL otherwise
AddToTotal(total, amount) ==
    LET sum == Plus(CastInteger(total), amount) IN
    IF FitsInteger(amount) /\ FitsInteger(sum) THEN sum ELSE Real(sum.k)

\* handlePaymentCompleted, second statement: UPDATE merchants SET
\* total_payments_received = CAST(total_payments_received AS INTEGER) + amount
\* WHERE address
updateMerchantTotal(ms, m, amount) ==
    IF m \notin DOMAIN ms THEN ms
    ELSE [ms EXCEPT ![m].totalReceived = AddToTotal(@, amount)]

\* handlePaymentRefunded / Expired / Cancelled: UPDATE payment_intents SET
\* status WHERE payment_id (no condition on the status)
setPaymentStatus(pis, p, st) ==
    IF p \notin DOMAIN pis THEN pis ELSE [pis EXCEPT ![p].status = st]

\* the webhook event name each handler passes to triggerWebhook
WebhookEvent(name) ==
    CASE name = "PaymentIntentCreated" -> "payment.created"
      [] name = "PaymentCompleted" -> "payment.completed"
      [] name = "PaymentRefunded" -> "payment.refunded"
      [] name = "PaymentExpired" -> "payment.expired"
      [] name = "PaymentCancelled" -> "payment.cancelled"
      [] OTHER -> None

\* the merchant address each handler passes to triggerWebhook: args.merchant,
\* or, for PaymentRefunded and PaymentExpired, the merchant of the payment row
\* (no webhook when the row is missing)
WebhookMerchant(log, pis) ==
    CASE log.name \in {"PaymentIntentCreated", "PaymentCompleted", "PaymentCancelled"}
            -> log.merchant
      [] log.name \in {"PaymentRefunded", "PaymentExpired"}
            -> IF log.paymentId \notin DOMAIN pis THEN None
               ELSE pis[log.paymentId].merchant
      [] OTHER -> None

SeqOfSet(S) ==
    LET RECURSIVE F(_)
        F(T) == IF T = {} THEN <<>>
                ELSE LET x == CHOOSE y \in T : \A z \in T : y <= z
                     IN <<x>> \o F(T \ {x})
    IN F(S)

\* triggerWebhook, the SELECT: ids of the active webhook_configs of a merchant
ActiveWebhooks(m) ==
    SeqOfSet({id \in DOMAIN webhook_configs :
                 webhook_configs[id].merchant = m /\ webhook_configs[id].isActive})

\* createWebhookDelivery: INSERT with status 'pending'; attempts defaults to 0,
\* last_attempt_at and next_retry_at to NULL
createWebhookDelivery(config, p, eventType) ==
    [config |-> config, paymentId |-> p, eventType |-> eventType, status |-> "pending",
     attempts |-> 0, lastAttemptAt |-> Null, nextRetryAt |-> Null]

\* sendWebhook, the branch taken on a 2xx answer
sendWebhookSuccess(d) ==
    [d EXCEPT !.status = "success", !.attempts = @ + 1, !.lastAttemptAt = Some(clock)]

\* the catch branch with the test for the last attempt off by one
sendWebhookFailure_OffByOne(d, readAttempts) ==
    LET attempts == readAttempts + 1 IN
    IF attempts > MAX_RETRY_ATTEMPTS
    THEN [d EXCEPT !.status = "failed", !.attempts = attempts,
                   !.lastAttemptAt = Some(clock)]
    ELSE [d EXCEPT !.attempts = attempts, !.lastAttemptAt = Some(clock),
                   !.nextRetryAt = Some(clock + (IF attempts <= Len(RETRY_DELAYS)
                                                 THEN RETRY_DELAYS[attempts]
                                                 ELSE RETRY_DELAYS[Len(RETRY_DELAYS)]))]

\* sendWebhook, the catch branch; readAttempts is delivery.attempts as read by
\* the SELECT at the start of sendWebhook
sendWebhookFailure(d, readAttempts) ==
    LET attempts == readAttempts + 1 IN
    IF attempts >= MAX_RETRY_ATTEMPTS
    THEN [d EXCEPT !.status = "failed", !.attempts = attempts,
                   !.lastAttemptAt = Some(clock)]
    ELSE [d EXCEPT !.attempts = attempts, !.lastAttemptAt = Some(clock),
                   !.nextRetryAt = Some(clock + (IF attempts <= Len(RETRY_DELAYS)
                                                 THEN RETRY_DELAYS[attempts]
                                                 ELSE RETRY_DELAYS[Len(RETRY_DELAYS)]))]

\* ------------------------------------------------------------ the indexer
\* (the callers of sendWebhook that WebhookSpec follows are declared here,
\* Init names them)
MaxDeliveries == 4    \* webhook_deliveries rows created in one behaviour of WebhookSpec
MaxWorkers == 2       \* retry-worker ticks whose loops may be in flight together
MaxTriggerTime == 30  \* the payment events of WebhookSpec arrive up to this second

\* caller 0 is triggerWebhook, called from a handler of the indexer; callers
\* 1..MaxWorkers are callbacks of the retry worker's setInterval
Callers == 0..MaxWorkers
IdleCall == [pc |-> "idle", queue |-> <<>>, delivery |-> 0, attempts |-> 0,
             since |-> 0, done |-> 0]

Passes == 1..MaxPasses
AwaitPcs == {"getBlockNumber", "getLogs", "getBlock", "post"}
SyncPcs == {"advance", "project", "total", "enqueue"}

IdlePass == [pc |-> "idle", initial |-> FALSE, currentBlock |-> 0, fromBlock |-> 0,
             logs |-> <<>>, log |-> 0, subs |-> <<>>, delivery |-> 0, attempts |-> 0]

\* some pass is inside a synchronous section
Busy == \E q \in Passes : pass[q].pc \in SyncPcs

Range(a, b) == IF b < a THEN <<>> ELSE [i \in 1..(b - a + 1) |-> a + i - 1]

\* provider.getLogs: the blocks of [fromBlock, toBlock] that exist.  Blocks
\* below 1 hold no log; whether the provider answers or throws for a range
\* that starts below 0 is not decided by this repository, and both answers
\* are taken (GetLogs).
getLogs(fromBlock, toBlock) ==
    Range(IF fromBlock < 1 THEN 1 ELSE fromBlock, Min(toBlock, Len(chain)))

\* the last block of a batch reaching one block into the next batch
ToBlock_Overlapping(fromBlock, currentBlock) == Min(fromBlock + batchSize, currentBlock)

\* Math.min(fromBlock + batchSize - 1, currentBlock)
ToBlock(fromBlock, currentBlock) == Min(fromBlock + batchSize - 1, currentBlock)

\* an EventIndexer after its construction: no interval timer, no start()
\* in its initial sync, no syncEvents call of a timer in flight
NoPolling == [intervals |-> 0, starting |-> 0, syncing |-> 0]

\* a syncEvents call before it began
NoSync == [pc |-> "idle", startBlock |-> 0, currentBlock |-> 0, fromBlock |-> 0,
           batches |-> <<>>, written |-> <<>>]

\* syncEvents, lines 61-71: the first block of the pass
StartOfPass(lastIndexedBlock, configured, currentBlock) ==
    IF lastIndexedBlock = 0
    THEN (IF configured > 0 THEN configured ELSE currentBlock - lookbackWindow)
    ELSE lastIndexedBlock + 1

\* a syncEvents call returns; when it is the call start() awaits, start()
\* goes on to install the interval timer
Return(p) ==
    /\ pass' = [pass EXCEPT ![p] = IdlePass]
    /\ timerSet' = (timerSet \/ pass[p].initial)

Fault == /\ faults + crashes < MaxFaults
         /\ faults' = faults + 1

\* start(): sets isRunning and runs the initial syncEvents
start ==
    /\ ~isRunning
    /\ isRunning' = TRUE
    /\ pass' = [pass EXCEPT ![1] = [IdlePass EXCEPT !.pc = "getBlockNumber",
                                                     !.initial = TRUE]]
    /\ UNCHANGED <<ledgerVars, startBlock, gateway, verify, sync, polling, dbVars, webhook_configs, timerSet,
                   workerVars, faults, crashes, overlaps>>

\* the setInterval callback of start(): calls syncEvents whenever isRunning,
\* whether or not an earlier call has returned
Tick(p) ==
    /\ timerSet /\ isRunning /\ ~Busy
    /\ pass[p].pc = "idle"
    /\ \A q \in Passes : q < p => pass[q].pc # "idle"
    /\ pass' = [pass EXCEPT ![p] = [IdlePass EXCEPT !.pc = "getBlockNumber"]]
    /\ IF \E q \in Passes : pass[q].pc # "idle"
       THEN overlaps < MaxOverlaps /\ overlaps' = overlaps + 1
       ELSE UNCHANGED overlaps
    /\ UNCHANGED <<ledgerVars, startBlock, gateway, verify, sync, polling, dbVars, webhook_configs, isRunning,
                   timerSet, workerVars, faults, crashes>>

\* syncEvents up to the first getLogs: provider.getBlockNumber() answers (the
\* height of the ledger) or throws
SyncBegin(p) ==
    /\ pass[p].pc = "getBlockNumber" /\ ~Busy
    /\ \/ /\ Fault
          /\ Return(p)
       \/ /\ UNCHANGED faults
          /\ LET currentBlock == Len(chain)
                 first == StartOfPass(getLastIndexedBlock, startBlock, currentBlock) IN
             IF first > currentBlock
             THEN Return(p)
             ELSE /\ pass' = [pass EXCEPT ![p].pc = "getLogs",
                                          ![p].currentBlock = currentBlock,
                                          ![p].fromBlock = first]
                  /\ UNCHANGED timerSet
    /\ UNCHANGED <<ledgerVars, startBlock, gateway, verify, sync, polling, dbVars, webhook_configs, isRunning,
                   workerVars, crashes, overlaps>>

\* processBlockRange: provider.getLogs answers or throws; a throw leaves
\* syncEvents through its catch, before updateLastIndexedBlock.  A range
\* that starts below 0 may be refused by the provider every time.
GetLogs(p) ==
    /\ pass[p].pc = "getLogs" /\ ~Busy
    /\ \/ /\ Fault
          /\ Return(p)
       \/ /\ pass[p].fromBlock < 0
          /\ UNCHANGED faults
          /\ Return(p)
       \/ /\ UNCHANGED faults
          /\ LET toBlock == ToBlock(pass[p].fromBlock, pass[p].currentBlock) IN
             pass' = [pass EXCEPT ![p].pc = "advance",
                                  ![p].logs = getLogs(pass[p].fromBlock, toBlock)]
          /\ UNCHANGED timerSet
    /\ UNCHANGED <<ledgerVars, startBlock, gateway, verify, sync, polling, dbVars, webhook_configs, isRunning,
                   workerVars, crashes, overlaps>>

\* the events PaymentGateway emits that PAYMENT_GATEWAY_ABI does not list
OtherEventNames == {"TokenSupportUpdated", "PlatformFeeUpdated", "FeeCollectorUpdated"}

\* interface.parseLog: the name of the event of the ABI the log belongs to,
\* nothing for a log of no event of the ABI
parseLog_Any(log) == log.name

parseLog(log) == IF log.name \in EventNames THEN log.name ELSE None

\* the loops of processBlockRange and syncEvents: the next log, else the next
\* batch, else updateLastIndexedBlock(currentBlock).  The log is parsed:
\* parseLog throws into the catch of the loop, or finds no event (`if
\* (parsedLog)` passes over the log), or handleEvent is called.
Advance(p) ==
    /\ pass[p].pc = "advance"
    /\ IF pass[p].logs # <<>>
       THEN /\ \/ /\ Fault
                  /\ pass' = [pass EXCEPT ![p].log = Head(pass[p].logs),
                                          ![p].logs = Tail(pass[p].logs)]
               \/ /\ UNCHANGED faults
                  /\ pass' = [pass EXCEPT
                        ![p].pc = IF parseLog(chain[Head(pass[p].logs)]) = None
                                  THEN "advance" ELSE "getBlock",
                        ![p].log = Head(pass[p].logs),
                        ![p].logs = Tail(pass[p].logs)]
            /\ UNCHANGED <<indexer_state, timerSet>>
       ELSE IF pass[p].fromBlock + batchSize <= pass[p].currentBlock
       THEN /\ pass' = [pass EXCEPT ![p].pc = "getLogs", ![p].log = 0,
                                    ![p].fromBlock = @ + batchSize]
            /\ UNCHANGED <<indexer_state, timerSet, faults>>
       ELSE /\ indexer_state' = updateLastIndexedBlock(pass[p].currentBlock)
            /\ Return(p)
            /\ UNCHANGED faults
    /\ UNCHANGED <<ledgerVars, startBlock, gateway, verify, sync, polling, merchants, payment_intents, event_logs,
                   webhook_configs, webhook_deliveries, isRunning, workerVars, crashes, overlaps>>

\* handleEvent up to storeEventLog: provider.getBlock answers and the log is
\* inserted into event_logs, or getBlock throws into the catch of
\* processBlockRange, which goes on with the next log
GetBlock(p) ==
    /\ pass[p].pc = "getBlock" /\ ~Busy
    /\ \/ /\ Fault
          /\ pass' = [pass EXCEPT ![p].pc = "advance"]
          /\ UNCHANGED event_logs
       \/ /\ UNCHANGED faults
          /\ event_logs' = storeEventLog(event_logs, pass[p].log)
          /\ pass' = [pass EXCEPT ![p].pc = "project"]
    /\ UNCHANGED <<ledgerVars, startBlock, gateway, verify, sync, polling, merchants, payment_intents, webhook_configs,
                   webhook_deliveries, indexer_state, isRunning, timerSet, workerVars, crashes, overlaps>>

\* the insert of handlePaymentIntentCreated breaks the foreign key
\* payment_intents.merchant -> merchants.address
BreaksMerchantKey(log) ==
    log.name = "PaymentIntentCreated" /\ log.merchant \notin DOMAIN merchants

\* the insert of createWebhookDelivery breaks the foreign key
\* webhook_deliveries.payment_id -> payment_intents.payment_id
BreaksPaymentKey(log) == log.paymentId \notin DOMAIN payment_intents

\* the switch of handleEvent: the first statement of the handler of the log,
\* or that statement throws into the catch of processBlockRange
Project(p) ==
    /\ pass[p].pc = "project"
    /\ LET log == chain[pass[p].log]
           name == log.name
           pis == CASE name = "PaymentIntentCreated" ->
                         handlePaymentIntentCreated(payment_intents, log.paymentId,
                                                    log.merchant, pass[p].log)
                    [] name = "PaymentCompleted" ->
                         handlePaymentCompleted(payment_intents, log.paymentId, pass[p].log)
                    [] name = "PaymentRefunded" ->
                         setPaymentStatus(payment_intents, log.paymentId, Refunded)
                    [] name = "PaymentExpired" ->
                         setPaymentStatus(payment_intents, log.paymentId, Expired)
                    [] name = "PaymentCancelled" ->
                         setPaymentStatus(payment_intents, log.paymentId, Cancelled)
                    [] OTHER -> payment_intents
           ms == CASE name = "MerchantRegistered" ->
                        handleMerchantRegistered(merchants, log.merchant)
                   [] name = "MerchantDeactivated" ->
                        setMerchantActive(merchants, log.merchant, FALSE)
                   [] name = "MerchantReactivated" ->
                        setMerchantActive(merchants, log.merchant, TRUE)
                   [] OTHER -> merchants
           m == WebhookMerchant(log, pis)
       IN \/ /\ Fault
             /\ pass' = [pass EXCEPT ![p].pc = "advance"]
             /\ UNCHANGED <<merchants, payment_intents>>
          \/ /\ BreaksMerchantKey(log)
             /\ pass' = [pass EXCEPT ![p].pc = "advance"]
             /\ UNCHANGED <<merchants, payment_intents, faults>>
          \/ /\ UNCHANGED faults
             /\ payment_intents' = pis
             /\ merchants' = ms
             /\ pass' = [pass EXCEPT
                   ![p].pc = IF name = "PaymentCompleted" THEN "total"
                             ELSE IF WebhookEvent(name) = None THEN "advance"
                             ELSE "enqueue",
                   ![p].subs = IF m = None THEN <<>> ELSE ActiveWebhooks(m)]
    /\ UNCHANGED <<ledgerVars, startBlock, gateway, verify, sync, polling, event_logs, webhook_configs,
                   webhook_deliveries, indexer_state, isRunning, timerSet, workerVars, crashes, overlaps>>

\* handlePaymentCompleted: the update of the merchant total
Total(p) ==
    /\ pass[p].pc = "total"
    /\ merchants' = updateMerchantTotal(merchants, chain[pass[p].log].merchant,
                                        chain[pass[p].log].amount)
    /\ pass' = [pass EXCEPT ![p].pc = "enqueue"]
    /\ UNCHANGED <<ledgerVars, startBlock, gateway, verify, sync, polling, payment_intents, event_logs, webhook_configs,
                   webhook_deliveries, indexer_state, isRunning, timerSet, workerVars,
                   faults, crashes, overlaps>>

\* the loop of triggerWebhook: createWebhookDelivery for the next active
\* webhook and sendWebhook up to axios.post; an insert that throws leaves
\* triggerWebhook and the handler for the catch of processBlockRange
Enqueue(p) ==
    /\ pass[p].pc = "enqueue"
    /\ IF pass[p].subs = <<>>
       THEN /\ pass' = [pass EXCEPT ![p].pc = "advance"]
            /\ UNCHANGED <<webhook_deliveries, received>>
       ELSE LET log == chain[pass[p].log]
                d == createWebhookDelivery(Head(pass[p].subs), log.paymentId,
                                           WebhookEvent(log.name))
            IN \/ /\ webhook_deliveries' = Append(webhook_deliveries, d)
                  /\ received' = Append(received, 1)
                  /\ pass' = [pass EXCEPT ![p].pc = "post",
                                          ![p].subs = Tail(pass[p].subs),
                                          ![p].delivery = Len(webhook_deliveries) + 1,
                                          ![p].attempts = d.attempts]
               \/ /\ BreaksPaymentKey(log)
                  /\ pass' = [pass EXCEPT ![p].pc = "advance", ![p].subs = <<>>]
                  /\ UNCHANGED <<webhook_deliveries, received>>
    /\ UNCHANGED <<ledgerVars, startBlock, gateway, verify, sync, polling, merchants, payment_intents, event_logs,
                   webhook_configs, indexer_state, isRunning, timerSet, clock, endpoint, calls,
                   faults, crashes, overlaps>>

\* sendWebhook after axios.post: a 2xx answer, or an error / timeout / non-2xx
Post(p) ==
    /\ pass[p].pc = "post" /\ ~Busy
    /\ \/ /\ Fault
          /\ webhook_deliveries' = [webhook_deliveries EXCEPT ![pass[p].delivery] =
                                        sendWebhookFailure(@, pass[p].attempts)]
       \/ /\ UNCHANGED faults
          /\ webhook_deliveries' = [webhook_deliveries EXCEPT ![pass[p].delivery] =
                                        sendWebhookSuccess(@)]
    /\ pass' = [pass EXCEPT ![p].pc = "enqueue", ![p].delivery = 0, ![p].attempts = 0]
    /\ UNCHANGED <<ledgerVars, startBlock, gateway, verify, sync, polling, merchants, payment_intents, event_logs,
                   webhook_configs, indexer_state, isRunning, timerSet, workerVars,
                   crashes, overlaps>>

\* the process is killed (or exits through shutdown): memory is lost, the
\* database stays as it is
Crash ==
    /\ isRunning
    /\ faults + crashes < MaxFaults
    /\ crashes' = crashes + 1
    /\ isRunning' = FALSE
    /\ timerSet' = FALSE
    /\ pass' = [q \in Passes |-> IdlePass]
    /\ UNCHANGED <<ledgerVars, startBlock, gateway, verify, sync, polling, dbVars, webhook_configs, workerVars, faults, overlaps>>

\* POST /merchants/:address/webhooks: the merchant must have a row;
\* registerWebhook inserts an active webhook.  The indexer reads
\* webhook_configs only in triggerWebhook, which runs in the synchronous
\* section that follows getBlock for a payment event, so the requests of the
\* API are taken right before such a section.
BeforeTrigger ==
    /\ ~Busy
    /\ \E q \in Passes : /\ pass[q].pc = "getBlock"
                         /\ WebhookEvent(chain[pass[q].log].name) # None

registerWebhook(m) ==
    /\ BeforeTrigger
    /\ m \in DOMAIN merchants
    /\ Len(webhook_configs) < MaxWebhooks
    /\ webhook_configs' = Append(webhook_configs, [merchant |-> m, isActive |-> TRUE])
    /\ UNCHANGED <<ledgerVars, startBlock, gateway, verify, sync, polling, dbVars, procVars, workerVars,
                   faults, crashes, overlaps>>

\* DELETE /webhooks/:webhookId: deactivateWebhook, UPDATE ... SET is_active = 0
deactivateWebhook(webhookId) ==
    /\ BeforeTrigger
    /\ webhookId \in DOMAIN webhook_configs
    /\ webhook_configs[webhookId].isActive
    /\ webhook_configs' = [webhook_configs EXCEPT ![webhookId].isActive = FALSE]
    /\ UNCHANGED <<ledgerVars, startBlock, gateway, verify, sync, polling, dbVars, procVars, workerVars,
                   faults, crashes, overlaps>>

\* A transaction is mined on the ledger.  The indexer looks at the ledger in
\* getBlockNumber and in getLogs, and getLogs never asks beyond the height
\* getBlockNumber returned: a block mined while every pass in flight is past
\* getBlockNumber cannot be told from one mined later, so mining is taken
\* only when no pass is in flight or one is about to read the height.
Mine ==
    /\ Len(chain) < MaxHeight
    /\ \/ \A q \in Passes : pass[q].pc = "idle"
       \/ \E q \in Passes : pass[q].pc = "getBlockNumber"
    /\ ~Busy
    /\ \/ \E m \in Merchants : \/ MerchantRegistered(m)
                               \/ MerchantDeactivated(m)
                               \/ MerchantReactivated(m)
       \/ \E p \in PaymentIds, m \in Merchants : PaymentIntentCreated(p, m, Args.amount)
       \/ \E p \in PaymentIds : \/ PaymentCompleted(p)
                                \/ PaymentRefunded(p)
                                \/ PaymentCancelled(p)
                                \/ PaymentExpired(p)
    /\ UNCHANGED <<startBlock, gateway, verify, sync, polling, dbVars, webhook_configs, procVars, workerVars, faults, crashes, overlaps>>

\* ------------------------------------------------- PaymentGateway.sol
\* ContractSpec follows the contract alone.  A call is an operator on the
\* storage: it returns the error it reverts with (None when it succeeds),
\* the storage after it, the events it emits and the token transfers it
\* makes.  A reverting call leaves storage, events and balances as they were
\* (whatever it wrote or emitted before the revert is rolled back).  The
\* amounts of the model are far below 2^256, so no sum or product overflows.
\* Every intent is in the one token the fixture supports, and the fee
\* collector stays the one of the deployment (setTokenSupport and
\* setFeeCollector are not called).
MaxTime == 2          \* block.timestamp runs from 0 to MaxTime

FEE_DENOMINATOR == 10000
InitialFee == 25
InitialBalance == 500

Users == {"m1", "c1"}
Owner == "owner"
FeeCollector == "fc"
Accounts == Users \cup {Owner, FeeCollector}
GatewayPaymentIds == {"p1", "p2"}
\* the arguments of the calls
GatewayAmounts == {0, 100, 399}
FeePercentages == {0, 25, 1000, 1001}

NoMerchant == [registered |-> FALSE, isActive |-> FALSE, totalPaymentsReceived |-> 0]

\* the storage after the deployment of the test fixture: the token is
\* supported and every user holds tokens
Deployed ==
    [merchants |-> [a \in Accounts |-> NoMerchant],
     merchantList |-> <<>>,
     paymentIntents |-> <<>>,
     merchantPayments |-> [a \in Accounts |-> <<>>],
     balanceOf |-> [a \in Accounts |-> IF a \in Users THEN InitialBalance ELSE 0],
     approved |-> {},
     paused |-> FALSE,
     platformFeePercentage |-> InitialFee,
     now |-> 0]

Reverted(g, error) == [error |-> error, storage |-> g, events |-> <<>>, transfers |-> <<>>]
Succeeded(g, events, transfers) ==
    [error |-> None, storage |-> g, events |-> events, transfers |-> transfers]

Event(name, p, merchant, payer, amount, platformFee) ==
    [name |-> name, paymentId |-> p, merchant |-> merchant, payer |-> payer,
     amount |-> amount, platformFee |-> platformFee]

\* ERC20 _update: value moves from one balance to another
Move(balanceOf, from, to, value) ==
    [a \in DOMAIN balanceOf |->
        balanceOf[a] - (IF a = from THEN value ELSE 0) + (IF a = to THEN value ELSE 0)]

\* the fee rounded up
PlatformFee_RoundedUp(amount, percentage) ==
    (amount * percentage + FEE_DENOMINATOR - 1) \div FEE_DENOMINATOR

\* (amount * platformFeePercentage) / FEE_DENOMINATOR
PlatformFee(amount, percentage) == (amount * percentage) \div FEE_DENOMINATOR

\* IERC20.approve(gateway, type(uint256).max) by a user
approve(g, sender) == Succeeded([g EXCEPT !.approved = @ \cup {sender}], <<>>, <<>>)

registerMerchant(g, sender) ==
    IF g.merchants[sender].registered THEN Reverted(g, "MerchantAlreadyRegistered")
    ELSE Succeeded([g EXCEPT !.merchants[sender] =
                        [registered |-> TRUE, isActive |-> TRUE, totalPaymentsReceived |-> 0],
                             !.merchantList = Append(@, sender)],
                   <<Event("MerchantRegistered", None, sender, None, None, None)>>, <<>>)

deactivateMerchant(g, sender) ==
    IF ~g.merchants[sender].registered THEN Reverted(g, "MerchantNotRegistered")
    ELSE Succeeded([g EXCEPT !.merchants[sender].isActive = FALSE],
                   <<Event("MerchantDeactivated", None, sender, None, None, None)>>, <<>>)

\* reactivateMerchant emitting its event without setting isActive
reactivateMerchant_NoEffect(g, sender) ==
    IF ~g.merchants[sender].registered THEN Reverted(g, "MerchantNotRegistered")
    ELSE Succeeded(g, <<Event("MerchantReactivated", None, sender, None, None, None)>>, <<>>)

reactivateMerchant(g, sender) ==
    IF ~g.merchants[sender].registered THEN Reverted(g, "MerchantNotRegistered")
    ELSE Succeeded([g EXCEPT !.merchants[sender].isActive = TRUE],
                   <<Event("MerchantReactivated", None, sender, None, None, None)>>, <<>>)

\* createPaymentIntent without the test for an intent of that id
createPaymentIntent_Overwriting(g, sender, p, amount, expiryTimestamp) ==
    IF ~g.merchants[sender].isActive THEN Reverted(g, "MerchantNotActive")
    ELSE IF g.paused THEN Reverted(g, "EnforcedPause")
    ELSE IF amount = 0 THEN Reverted(g, "InvalidPaymentAmount")
    ELSE IF expiryTimestamp <= g.now THEN Reverted(g, "InvalidExpiryTime")
    ELSE Succeeded([g EXCEPT !.paymentIntents =
                        (p :> [merchant |-> sender, amount |-> amount,
                               expiryTimestamp |-> expiryTimestamp, status |-> Pending,
                               payer |-> None]) @@ @,
                             !.merchantPayments[sender] = Append(@, p)],
                   <<Event("PaymentIntentCreated", p, sender, None, amount, None)>>, <<>>)

createPaymentIntent(g, sender, p, amount, expiryTimestamp) ==
    IF ~g.merchants[sender].isActive THEN Reverted(g, "MerchantNotActive")
    ELSE IF g.paused THEN Reverted(g, "EnforcedPause")
    ELSE IF p \in DOMAIN g.paymentIntents THEN Reverted(g, "PaymentIntentAlreadyExists")
    ELSE IF amount = 0 THEN Reverted(g, "InvalidPaymentAmount")
    ELSE IF expiryTimestamp <= g.now THEN Reverted(g, "InvalidExpiryTime")
    ELSE Succeeded([g EXCEPT !.paymentIntents =
                        (p :> [merchant |-> sender, amount |-> amount,
                               expiryTimestamp |-> expiryTimestamp, status |-> Pending,
                               payer |-> None]) @@ @,
                             !.merchantPayments[sender] = Append(@, p)],
                   <<Event("PaymentIntentCreated", p, sender, None, amount, None)>>, <<>>)

\* executePayment with the expired branch returning instead of reverting
executePayment_ExpiredKept(g, sender, p) ==
    IF g.paused THEN Reverted(g, "EnforcedPause")
    ELSE IF p \notin DOMAIN g.paymentIntents THEN Reverted(g, "PaymentIntentNotFound")
    ELSE LET intent == g.paymentIntents[p]
             platformFee == PlatformFee(intent.amount, g.platformFeePercentage)
             merchantAmount == intent.amount - platformFee
         IN IF intent.status # Pending THEN Reverted(g, "PaymentAlreadyProcessed")
            ELSE IF g.now > intent.expiryTimestamp
            THEN Succeeded([g EXCEPT !.paymentIntents[p].status = Expired],
                           <<Event("PaymentExpired", p, None, None, None, None)>>, <<>>)
            ELSE IF ~g.merchants[intent.merchant].isActive
            THEN Reverted(g, "MerchantNotActive")
            ELSE IF g.balanceOf[sender] < intent.amount
            THEN Reverted(g, "InsufficientPayment")
            ELSE IF sender \notin g.approved THEN Reverted(g, "ERC20InsufficientAllowance")
            ELSE Succeeded(
                   [g EXCEPT !.balanceOf = Move(Move(@, sender, intent.merchant, merchantAmount),
                                                sender, FeeCollector, platformFee),
                             !.paymentIntents[p].status = Completed,
                             !.paymentIntents[p].payer = sender,
                             !.merchants[intent.merchant].totalPaymentsReceived =
                                 @ + intent.amount],
                   <<Event("PaymentCompleted", p, intent.merchant, sender, intent.amount,
                           platformFee)>>,
                   <<[from |-> sender, to |-> intent.merchant, value |-> merchantAmount]>>
                   \o (IF platformFee > 0
                       THEN <<[from |-> sender, to |-> FeeCollector, value |-> platformFee]>>
                       ELSE <<>>))

\* the expired branch sets the status and emits PaymentExpired before it
\* reverts: the revert undoes both
executePayment(g, sender, p) ==
    IF g.paused THEN Reverted(g, "EnforcedPause")
    ELSE IF p \notin DOMAIN g.paymentIntents THEN Reverted(g, "PaymentIntentNotFound")
    ELSE LET intent == g.paymentIntents[p]
             platformFee == PlatformFee(intent.amount, g.platformFeePercentage)
             merchantAmount == intent.amount - platformFee
         IN IF intent.status # Pending THEN Reverted(g, "PaymentAlreadyProcessed")
            ELSE IF g.now > intent.expiryTimestamp THEN Reverted(g, "PaymentAlreadyExpired")
            ELSE IF ~g.merchants[intent.merchant].isActive
            THEN Reverted(g, "MerchantNotActive")
            ELSE IF g.balanceOf[sender] < intent.amount
            THEN Reverted(g, "InsufficientPayment")
            ELSE IF sender \notin g.approved THEN Reverted(g, "ERC20InsufficientAllowance")
            ELSE Succeeded(
                   [g EXCEPT !.balanceOf = Move(Move(@, sender, intent.merchant, merchantAmount),
                                                sender, FeeCollector, platformFee),
                             !.paymentIntents[p].status = Completed,
                             !.paymentIntents[p].payer = sender,
                             !.merchants[intent.merchant].totalPaymentsReceived =
                                 @ + intent.amount],
                   <<Event("PaymentCompleted", p, intent.merchant, sender, intent.amount,
                           platformFee)>>,
                   <<[from |-> sender, to |-> intent.merchant, value |-> merchantAmount]>>
                   \o (IF platformFee > 0
                       THEN <<[from |-> sender, to |-> FeeCollector, value |-> platformFee]>>
                       ELSE <<>>))

\* the modifier letting every caller pass for an intent that exists
onlyMerchant_Anyone(g, sender, p) == p \in DOMAIN g.paymentIntents

\* modifier onlyMerchant(paymentId): the merchant of an intent that does not
\* exist is address(0), which no caller is
onlyMerchant(g, sender, p) ==
    p \in DOMAIN g.paymentIntents /\ g.paymentIntents[p].merchant = sender

\* refundPayment taking the refunded amount off the total of the merchant
refundPayment_TotalReduced(g, sender, p) ==
    IF ~onlyMerchant(g, sender, p) THEN Reverted(g, "UnauthorizedAccess")
    ELSE IF g.paused THEN Reverted(g, "EnforcedPause")
    ELSE LET intent == g.paymentIntents[p]
             platformFee == PlatformFee(intent.amount, g.platformFeePercentage)
             refundAmount == intent.amount - platformFee
         IN IF intent.status # Completed THEN Reverted(g, "PaymentNotRefundable")
            ELSE IF sender \notin g.approved THEN Reverted(g, "ERC20InsufficientAllowance")
            ELSE IF g.balanceOf[sender] < refundAmount
            THEN Reverted(g, "ERC20InsufficientBalance")
            ELSE Succeeded(
                   [g EXCEPT !.balanceOf = Move(@, sender, intent.payer, refundAmount),
                             !.paymentIntents[p].status = Refunded,
                             !.merchants[sender].totalPaymentsReceived = @ - intent.amount],
                   <<Event("PaymentRefunded", p, sender, intent.payer, refundAmount, None)>>,
                   <<[from |-> sender, to |-> intent.payer, value |-> refundAmount]>>)

refundPayment(g, sender, p) ==
    IF ~onlyMerchant(g, sender, p) THEN Reverted(g, "UnauthorizedAccess")
    ELSE IF g.paused THEN Reverted(g, "EnforcedPause")
    ELSE LET intent == g.paymentIntents[p]
             platformFee == PlatformFee(intent.amount, g.platformFeePercentage)
             refundAmount == intent.amount - platformFee
         IN IF intent.status # Completed THEN Reverted(g, "PaymentNotRefundable")
            ELSE IF sender \notin g.approved THEN Reverted(g, "ERC20InsufficientAllowance")
            ELSE IF g.balanceOf[sender] < refundAmount
            THEN Reverted(g, "ERC20InsufficientBalance")
            ELSE Succeeded(
                   [g EXCEPT !.balanceOf = Move(@, sender, intent.payer, refundAmount),
                             !.paymentIntents[p].status = Refunded],
                   <<Event("PaymentRefunded", p, sender, intent.payer, refundAmount, None)>>,
                   <<[from |-> sender, to |-> intent.payer, value |-> refundAmount]>>)

\* cancelPaymentIntent without the test of the status
cancelPaymentIntent_AnyStatus(g, sender, p) ==
    IF ~onlyMerchant(g, sender, p) THEN Reverted(g, "UnauthorizedAccess")
    ELSE Succeeded([g EXCEPT !.paymentIntents[p].status = Cancelled],
                   <<Event("PaymentCancelled", p, sender, None, None, None)>>, <<>>)

cancelPaymentIntent(g, sender, p) ==
    IF ~onlyMerchant(g, sender, p) THEN Reverted(g, "UnauthorizedAccess")
    ELSE IF g.paymentIntents[p].status # Pending THEN Reverted(g, "PaymentAlreadyProcessed")
    ELSE Succeeded([g EXCEPT !.paymentIntents[p].status = Cancelled],
                   <<Event("PaymentCancelled", p, sender, None, None, None)>>, <<>>)

markPaymentExpired(g, sender, p) ==
    IF p \notin DOMAIN g.paymentIntents THEN Reverted(g, "PaymentIntentNotFound")
    ELSE IF g.paymentIntents[p].status # Pending THEN Reverted(g, "PaymentAlreadyProcessed")
    ELSE IF g.now <= g.paymentIntents[p].expiryTimestamp THEN Reverted(g, "InvalidExpiryTime")
    ELSE Succeeded([g EXCEPT !.paymentIntents[p].status = Expired],
                   <<Event("PaymentExpired", p, None, None, None, None)>>, <<>>)

setPlatformFee(g, sender, newFeePercentage) ==
    IF sender # Owner THEN Reverted(g, "OwnableUnauthorizedAccount")
    ELSE IF newFeePercentage > 1000 THEN Reverted(g, "InvalidFeePercentage")
    ELSE Succeeded([g EXCEPT !.platformFeePercentage = newFeePercentage],
                   <<Event("PlatformFeeUpdated", None, None, None, None, None)>>, <<>>)

pause(g, sender) ==
    IF sender # Owner THEN Reverted(g, "OwnableUnauthorizedAccount")
    ELSE IF g.paused THEN Reverted(g, "EnforcedPause")
    ELSE Succeeded([g EXCEPT !.paused = TRUE],
                   <<Event("Paused", None, None, None, None, None)>>, <<>>)

unpause(g, sender) ==
    IF sender # Owner THEN Reverted(g, "OwnableUnauthorizedAccount")
    ELSE IF ~g.paused THEN Reverted(g, "ExpectedPause")
    ELSE Succeeded([g EXCEPT !.paused = FALSE],
                   <<Event("Unpaused", None, None, None, None, None)>>, <<>>)

\* ------------------------------------------------------- webhook signing
\* generateSignature / verifySignature.  A secret is the sequence of its
\* bytes; HMAC pads a key with zero bytes up to the block of the hash, so
\* the key of a secret is the secret without its trailing zero bytes (the
\* secrets of the model are shorter than the block).  JSON.stringify leaves
\* out the properties whose value is undefined.  HMAC-SHA256 itself is taken
\* as free of collisions: the digest stands for its key and message.
DigestHexLength == 64

Payloads == {"{}", "{a:undefined}", "{a:1}", "{a:2}"}
Secrets == {<<1>>, <<1, 0>>, <<2>>}

JSONstringify(payload) == IF payload = "{a:undefined}" THEN "{}" ELSE payload

RECURSIVE HmacKey(_)
HmacKey(secret) ==
    IF secret # <<>> /\ secret[Len(secret)] = 0
    THEN HmacKey(SubSeq(secret, 1, Len(secret) - 1))
    ELSE secret

\* a string of hex digits: its length, and the digest it is (or is the
\* start of)
HexString(length, digest) == [length |-> length, digest |-> digest]

generateSignature(payload, secret) ==
    HexString(DigestHexLength, <<HmacKey(secret), JSONstringify(payload)>>)

\* the signature strings of the model: the signatures themselves, each of
\* them without its last digit, and the empty string
Signatures ==
    LET digests == {generateSignature(p, s).digest : p \in Payloads, s \in Secrets}
    IN {HexString(DigestHexLength, d) : d \in digests}
       \cup {HexString(DigestHexLength - 1, d) : d \in digests}
       \cup {HexString(0, None)}

\* verifySignature with lengths compared before timingSafeEqual
verifySignature_LengthChecked(payload, signature, secret) ==
    IF signature = generateSignature(payload, secret) THEN "true" ELSE "false"

\* crypto.timingSafeEqual throws a RangeError when its two buffers differ in
\* byte length; the booleans are written "true" and "false"
verifySignature(payload, signature, secret) ==
    LET expectedSignature == generateSignature(payload, secret) IN
    IF signature.length # expectedSignature.length THEN "RangeError"
    ELSE IF signature = expectedSignature THEN "true" ELSE "false"

NoVerify == [payload |-> None, signature |-> None, secret |-> None, result |-> None]

Init ==
    /\ chain = <<>>
    /\ cMerchants = [m \in Merchants |-> "none"]
    /\ cIntents = <<>>
    /\ startBlock \in StartBlocks
    /\ merchants = <<>>
    /\ payment_intents = <<>>
    /\ event_logs = [b \in 1..MaxHeight |-> 0]
    /\ webhook_configs = <<>>
    /\ webhook_deliveries = <<>>
    /\ indexer_state = <<>>
    /\ isRunning = FALSE
    /\ timerSet = FALSE
    /\ pass = [q \in Passes |-> IdlePass]
    /\ clock = 0
    /\ endpoint = "flaky"
    /\ calls = [c \in Callers |-> IdleCall]
    /\ received = <<>>
    /\ faults = 0
    /\ crashes = 0
    /\ overlaps = 0
    /\ gateway = Deployed
    /\ verify = NoVerify
    /\ sync = NoSync
    /\ polling = NoPolling

Next ==
    \/ Mine
    \/ start
    \/ Crash
    \/ \E m \in Merchants : registerWebhook(m)
    \/ \E webhookId \in 1..MaxWebhooks : deactivateWebhook(webhookId)
    \/ \E p \in Passes : \/ Tick(p)
                         \/ SyncBegin(p)
                         \/ GetLogs(p)
                         \/ Advance(p)
                         \/ GetBlock(p)
                         \/ Project(p)
                         \/ Total(p)
                         \/ Enqueue(p)
                         \/ Post(p)

Spec == Init /\ [][Next]_vars

\* ----------------------------------------------------- the webhook service
\* WebhookSpec follows webhook_deliveries alone: deliveries are created and
\* sent at once by triggerWebhook, and sent again by the retry worker.  Time
\* is counted in seconds and moves in steps of the worker's interval; every
\* request ends within the axios timeout.  In Spec the clock stands still, so
\* no delivery falls due there and the worker's ticks select nothing.
WorkerInterval == 30
PostTimeout == 10

indexerVars == <<ledgerVars, startBlock, gateway, verify, sync, polling, merchants, payment_intents, event_logs,
                 webhook_configs, indexer_state, procVars, faults, crashes, overlaps>>

\* the SELECT of the retry worker; rows come back in rowid order
pendingRetries(now) ==
    SeqOfSet({id \in DOMAIN webhook_deliveries :
                 /\ webhook_deliveries[id].status = "pending"
                 /\ webhook_deliveries[id].nextRetryAt # Null
                 /\ webhook_deliveries[id].nextRetryAt[1] <= now
                 /\ webhook_deliveries[id].attempts < MAX_RETRY_ATTEMPTS})

\* sendWebhook up to axios.post for the first delivery of queue: the row is
\* read (whatever its status) and the request is sent; with an empty queue
\* the caller returns
sendWebhook(call, queue, table) ==
    IF queue = <<>> THEN IdleCall
    ELSE [call EXCEPT !.pc = "post", !.queue = Tail(queue), !.delivery = Head(queue),
                      !.attempts = table[Head(queue)].attempts]

\* the requests sent once the caller has started sendWebhook for the head of queue
Sent(queue) ==
    IF queue = <<>> THEN received ELSE [received EXCEPT ![Head(queue)] = @ + 1]

\* triggerWebhook for one payment event of a merchant with one active
\* webhook: createWebhookDelivery, then sendWebhook up to axios.post
Trigger ==
    /\ calls[0].pc = "idle"
    /\ Len(webhook_deliveries) < MaxDeliveries
    /\ clock <= MaxTriggerTime
    /\ webhook_deliveries' = Append(webhook_deliveries,
                                    createWebhookDelivery(1, "p1", "payment.created"))
    /\ received' = Append(received, 1)
    /\ calls' = [calls EXCEPT ![0] = [IdleCall EXCEPT !.pc = "post",
                                          !.delivery = Len(webhook_deliveries) + 1,
                                          !.since = clock]]
    /\ UNCHANGED <<indexerVars, clock, endpoint>>

\* sendWebhook after axios.post (a 2xx answer, or an error, a timeout or
\* another status), then the caller's next sendWebhook up to its axios.post
Respond(c) ==
    /\ calls[c].pc = "post"
    /\ \E ok \in (IF endpoint = "down" THEN {FALSE} ELSE BOOLEAN) :
          LET id == calls[c].delivery
              table == [webhook_deliveries EXCEPT ![id] =
                           IF ok THEN sendWebhookSuccess(@)
                           ELSE sendWebhookFailure(@, calls[c].attempts)]
          IN /\ webhook_deliveries' = table
             /\ calls' = [calls EXCEPT ![c] =
                             sendWebhook([calls[c] EXCEPT !.done = @ + 1],
                                         calls[c].queue, table)]
             /\ received' = Sent(calls[c].queue)
    /\ UNCHANGED <<indexerVars, clock, endpoint>>

\* a request of caller c can still be unanswered at second t: each request
\* of a worker's loop lasts at most the axios timeout, and triggerWebhook
\* sent its request within the interval that follows since
MayLast(c, t) ==
    IF c = 0 THEN t - calls[c].since <= WorkerInterval
    ELSE calls[c].done * PostTimeout >= t - calls[c].since

\* the seconds at which the next callback of the worker's interval is
\* followed: the next one while something is in flight or events may still
\* arrive, else the first one at which a delivery is due (the callbacks
\* before it select nothing)
TickTimes ==
    LET due == {id \in DOMAIN webhook_deliveries :
                   /\ webhook_deliveries[id].status = "pending"
                   /\ webhook_deliveries[id].nextRetryAt # Null
                   /\ webhook_deliveries[id].attempts < MAX_RETRY_ATTEMPTS}
        at(id) == IF webhook_deliveries[id].nextRetryAt[1] <= clock + WorkerInterval
                  THEN clock + WorkerInterval
                  ELSE webhook_deliveries[id].nextRetryAt[1]
    IN IF (\E c \in Callers : calls[c].pc = "post") \/ clock < MaxTriggerTime
       THEN {clock + WorkerInterval}
       ELSE {at(id) : id \in {i \in due : \A j \in due : at(i) <= at(j)}}

\* the callback of startWebhookRetryWorker: the SELECT of the due deliveries
\* and sendWebhook for the first of them, whether or not an earlier
\* callback's loop has ended
RetryTick(w) ==
    /\ w > 0
    /\ calls[w].pc = "idle"
    /\ \A v \in 1..(w - 1) : calls[v].pc # "idle"
    /\ \E t \in TickTimes :
          /\ \A c \in Callers : calls[c].pc = "post" => MayLast(c, t)
          /\ clock' = t
          /\ LET queue == pendingRetries(t) IN
             /\ calls' = [calls EXCEPT ![w] =
                             sendWebhook([IdleCall EXCEPT !.since = t], queue,
                                         webhook_deliveries)]
             /\ received' = Sent(queue)
    /\ UNCHANGED <<indexerVars, webhook_deliveries, endpoint>>

\* the process is killed while requests are unanswered: the callers are
\* lost, webhook_deliveries stays as it is, and the restarted process starts
\* the retry worker again
WebhookCrash ==
    /\ \E c \in Callers : calls[c].pc = "post"
    /\ faults + crashes < MaxFaults
    /\ crashes' = crashes + 1
    /\ calls' = [c \in Callers |-> IdleCall]
    /\ UNCHANGED <<ledgerVars, startBlock, gateway, verify, sync, polling, dbVars, webhook_configs, procVars,
                   clock, endpoint, received, faults, overlaps>>

\* the state in which m1 is registered, has created payment p1 and has
\* registered one webhook, all of it indexed
WebhookInit ==
    /\ chain = <<Log("MerchantRegistered", None, "m1"),
                 Log("PaymentIntentCreated", "p1", "m1")>>
    /\ cMerchants = [m \in Merchants |-> "active"]
    /\ cIntents = ("p1" :> [merchant |-> "m1", amount |-> Args.amount, status |-> Pending])
    /\ startBlock = 1
    /\ merchants = handleMerchantRegistered(<<>>, "m1")
    /\ payment_intents = handlePaymentIntentCreated(<<>>, "p1", "m1", 2)
    /\ event_logs = [b \in 1..MaxHeight |-> IF b <= 2 THEN 1 ELSE 0]
    /\ webhook_configs = <<[merchant |-> "m1", isActive |-> TRUE]>>
    /\ webhook_deliveries = <<>>
    /\ indexer_state = <<2>>
    /\ isRunning = TRUE
    /\ timerSet = TRUE
    /\ pass = [q \in Passes |-> IdlePass]
    /\ clock = 0
    /\ endpoint \in {"down", "flaky"}
    /\ calls = [c \in Callers |-> IdleCall]
    /\ received = <<>>
    /\ faults = 0
    /\ crashes = 0
    /\ overlaps = 0
    /\ gateway = Deployed
    /\ verify = NoVerify
    /\ sync = NoSync
    /\ polling = NoPolling

WebhookNext ==
    \/ Trigger
    \/ WebhookCrash
    \/ \E c \in Callers : Respond(c)
    \/ \E w \in Callers : RetryTick(w)

WebhookSpec == WebhookInit /\ [][WebhookNext]_vars

\* WebhookSpec with its scheduling: the endpoint or the axios timeout ends
\* every request, and the interval timer of the retry worker keeps firing
WebhookLiveSpec ==
    /\ WebhookSpec
    /\ WF_vars(\E c \in Callers : Respond(c))
    /\ WF_vars(\E w \in Callers : RetryTick(w))

\* ---------------------------------------------- batches with other logs
\* BatchSpec follows the passes over a ledger that also holds the events the
\* indexer's ABI does not list; the process is not killed.

\* setTokenSupport, setPlatformFee, setFeeCollector: an event of the owner's
\* functions; the storage they write is not read by the indexer.  The three
\* events are handled alike, and BatchMine takes setPlatformFee for them.
OtherEvent(name) ==
    /\ chain' = Append(chain, Log(name, None, None))
    /\ UNCHANGED <<cMerchants, cIntents>>

BatchMine ==
    /\ Len(chain) < MaxHeight
    /\ \/ \A q \in Passes : pass[q].pc = "idle"
       \/ \E q \in Passes : pass[q].pc = "getBlockNumber"
    /\ ~Busy
    /\ \/ \E m \in Merchants : \/ MerchantRegistered(m)
                               \/ MerchantDeactivated(m)
                               \/ MerchantReactivated(m)
       \/ \E p \in PaymentIds, m \in Merchants : PaymentIntentCreated(p, m, Args.amount)
       \/ \E p \in PaymentIds : \/ PaymentCompleted(p)
                                \/ PaymentRefunded(p)
                                \/ PaymentCancelled(p)
                                \/ PaymentExpired(p)
       \/ OtherEvent("PlatformFeeUpdated")
    /\ UNCHANGED <<startBlock, gateway, verify, sync, polling, dbVars, webhook_configs, procVars, workerVars, faults,
                   crashes, overlaps>>

BatchNext ==
    \/ BatchMine
    \/ start
    \/ \E m \in Merchants : registerWebhook(m)
    \/ \E p \in Passes : \/ Tick(p)
                         \/ SyncBegin(p)
                         \/ GetLogs(p)
                         \/ Advance(p)
                         \/ GetBlock(p)
                         \/ Project(p)
                         \/ Total(p)
                         \/ Enqueue(p)
                         \/ Post(p)

BatchSpec == Init /\ [][BatchNext]_vars

\* ------------------------------------------------- the handlers, in order
\* HandlerSpec follows the handlers alone: every block is handled by a pass
\* of its own in which nothing fails, and the payments carry the amounts of
\* Amounts.

\* the switch of handleEvent on payment_intents
HandlerPayments(log, b, pis) ==
    CASE log.name = "PaymentIntentCreated" ->
            handlePaymentIntentCreated(pis, log.paymentId, log.merchant, b)
      [] log.name = "PaymentCompleted" -> handlePaymentCompleted(pis, log.paymentId, b)
      [] log.name = "PaymentRefunded" -> setPaymentStatus(pis, log.paymentId, Refunded)
      [] log.name = "PaymentExpired" -> setPaymentStatus(pis, log.paymentId, Expired)
      [] log.name = "PaymentCancelled" -> setPaymentStatus(pis, log.paymentId, Cancelled)
      [] OTHER -> pis

\* the switch of handleEvent on merchants
HandlerMerchants(log, ms) ==
    CASE log.name = "MerchantRegistered" -> handleMerchantRegistered(ms, log.merchant)
      [] log.name = "MerchantDeactivated" -> setMerchantActive(ms, log.merchant, FALSE)
      [] log.name = "MerchantReactivated" -> setMerchantActive(ms, log.merchant, TRUE)
      [] log.name = "PaymentCompleted" ->
            updateMerchantTotal(ms, log.merchant, log.amount)
      [] OTHER -> ms

\* triggerWebhook: a delivery for each of the webhooks of subs, each sent
\* once, the request answered 2xx or not
RECURSIVE Deliver(_, _, _, _)
Deliver(subs, log, ok, table) ==
    IF subs = <<>> THEN table
    ELSE LET d == createWebhookDelivery(Head(subs), log.paymentId, WebhookEvent(log.name))
         IN Deliver(Tail(subs), log, ok,
                    Append(table, IF ok THEN sendWebhookSuccess(d)
                                  ELSE sendWebhookFailure(d, d.attempts)))

\* a transaction is mined and a syncEvents pass handles its block: the log
\* is stored, its handler runs, the checkpoint is written
HandleBlock ==
    /\ Len(chain) < MaxHeight
    /\ \/ \E m \in Merchants : \/ MerchantDeactivated(m)
                               \/ MerchantReactivated(m)
       \/ \E p \in PaymentIds, m \in Merchants, amount \in Amounts :
             PaymentIntentCreated(p, m, amount)
       \/ \E p \in PaymentIds : \/ PaymentCompleted(p)
                                \/ PaymentRefunded(p)
                                \/ PaymentCancelled(p)
                                \/ PaymentExpired(p)
    /\ LET b == Len(chain')
           log == chain'[b]
           pis == HandlerPayments(log, b, payment_intents)
           m == WebhookMerchant(log, pis)
           subs == IF m = None THEN <<>> ELSE ActiveWebhooks(m)
       IN /\ event_logs' = storeEventLog(event_logs, b)
          /\ payment_intents' = pis
          /\ merchants' = HandlerMerchants(log, merchants)
          /\ \E ok \in BOOLEAN :
                webhook_deliveries' = Deliver(subs, log, ok, webhook_deliveries)
          /\ received' = received \o [i \in 1..Len(subs) |-> 1]
          /\ indexer_state' = updateLastIndexedBlock(b)
    /\ UNCHANGED <<startBlock, gateway, verify, sync, polling, webhook_configs, procVars, clock, endpoint, calls,
                   faults, crashes, overlaps>>

\* the state after MerchantRegistered(m1) was handled and the merchant has
\* registered no webhook, an active one or one it has deactivated
HandlerInit ==
    /\ chain = <<Log("MerchantRegistered", None, "m1")>>
    /\ cMerchants = [m \in Merchants |-> "active"]
    /\ cIntents = <<>>
    /\ startBlock = 1
    /\ merchants = handleMerchantRegistered(<<>>, "m1")
    /\ payment_intents = <<>>
    /\ event_logs = [b \in 1..MaxHeight |-> IF b <= 1 THEN 1 ELSE 0]
    /\ webhook_configs \in {<<>>, <<[merchant |-> "m1", isActive |-> TRUE]>>,
                            <<[merchant |-> "m1", isActive |-> FALSE]>>}
    /\ webhook_deliveries = <<>>
    /\ indexer_state = <<1>>
    /\ isRunning = TRUE
    /\ timerSet = TRUE
    /\ pass = [q \in Passes |-> IdlePass]
    /\ clock = 0
    /\ endpoint = "flaky"
    /\ calls = [c \in Callers |-> IdleCall]
    /\ received = <<>>
    /\ faults = 0
    /\ crashes = 0
    /\ overlaps = 0
    /\ gateway = Deployed
    /\ verify = NoVerify
    /\ sync = NoSync
    /\ polling = NoPolling

HandlerNext == HandleBlock

HandlerSpec == HandlerInit /\ [][HandlerNext]_vars

\* ================================================================ claims

\* the status of a payment in the projection ("none" without a row)
StatusOf(pis, p) == IF p \in DOMAIN pis THEN pis[p].status ELSE "none"

\* the state table of the payment intents
StateGraph == {<<"none", Pending>>, <<Pending, Completed>>, <<Pending, Expired>>,
               <<Pending, Cancelled>>, <<Completed, Refunded>>}

\* the event is a transition of the state table from status st
InTable(name, st) ==
    CASE name = "PaymentIntentCreated" -> st = "none"
      [] name \in {"PaymentCompleted", "PaymentExpired", "PaymentCancelled"} -> st = Pending
      [] name = "PaymentRefunded" -> st = Completed
      [] OTHER -> TRUE

\* pass p executes the handler statement of its log in this step
ProjectStep(p) ==
    /\ pass[p].pc = "project"
    /\ pass'[p].pc \in {"total", "enqueue", "advance"}
    /\ faults' = faults

\* C1: every change of a payment's status in the projection is an edge of the
\* state table (none->Pending, Pending->Completed, Pending->Expired,
\* Pending->Cancelled, Completed->Refunded).
C1_StatusFollowsGraph ==
    [][\A p \in PaymentIds :
          \/ StatusOf(payment_intents', p) = StatusOf(payment_intents, p)
          \/ <<StatusOf(payment_intents, p), StatusOf(payment_intents', p)>> \in StateGraph
      ]_vars

\* C2: when the handled event is not a transition of the state table from the
\* current status of the payment's row, the payment rows stay as they are and
\* no webhook is triggered for the event.
C2_OutOfTableIsNoOp ==
    [][\A p \in Passes :
          (/\ ProjectStep(p)
           /\ chain[pass[p].log].paymentId \in DOMAIN payment_intents
           /\ ~InTable(chain[pass[p].log].name,
                       StatusOf(payment_intents, chain[pass[p].log].paymentId)))
          => /\ payment_intents' = payment_intents
             /\ pass'[p].subs = <<>>
      ]_vars

\* C3: PaymentIntentCreated for a paymentId that already has a row leaves the
\* status, payer, paidAt and platformFee of the row unchanged.
C3_CreatedKeepsExistingRow ==
    [][\A p \in Passes :
          LET log == chain[pass[p].log] IN
          (/\ ProjectStep(p)
           /\ log.name = "PaymentIntentCreated"
           /\ log.paymentId \in DOMAIN payment_intents)
          => LET old == payment_intents[log.paymentId]
                 new == payment_intents'[log.paymentId]
             IN /\ new.status = old.status
                /\ new.payer = old.payer
                /\ new.paidAt = old.paidAt
                /\ new.platformFee = old.platformFee
      ]_vars

\* the projection after every log of blocks from..to was handled once, in order
RECURSIVE RunOnce(_, _, _)
RunOnce(from, to, proj) ==
    IF to < from THEN proj
    ELSE LET log == chain[from]
             name == log.name
             ms == CASE name = "MerchantRegistered" ->
                          handleMerchantRegistered(proj.merchants, log.merchant)
                     [] name = "MerchantDeactivated" ->
                          setMerchantActive(proj.merchants, log.merchant, FALSE)
                     [] name = "MerchantReactivated" ->
                          setMerchantActive(proj.merchants, log.merchant, TRUE)
                     [] name = "PaymentCompleted" ->
                          updateMerchantTotal(proj.merchants, log.merchant, log.amount)
                     [] OTHER -> proj.merchants
             pis == CASE name = "PaymentIntentCreated" ->
                           handlePaymentIntentCreated(proj.payment_intents, log.paymentId,
                                                      log.merchant, from)
                      [] name = "PaymentCompleted" ->
                           handlePaymentCompleted(proj.payment_intents, log.paymentId, from)
                      [] name = "PaymentRefunded" ->
                           setPaymentStatus(proj.payment_intents, log.paymentId, Refunded)
                      [] name = "PaymentExpired" ->
                           setPaymentStatus(proj.payment_intents, log.paymentId, Expired)
                      [] name = "PaymentCancelled" ->
                           setPaymentStatus(proj.payment_intents, log.paymentId, Cancelled)
                      [] OTHER -> proj.payment_intents
         IN RunOnce(from + 1, to, [merchants |-> ms, payment_intents |-> pis])

\* the first block the indexer ever asks for
FirstBlock == IF startBlock > 0 THEN startBlock ELSE 1

\* C4: when a pass stores the checkpoint, the projection is the one a single
\* run over the blocks up to that checkpoint produces, also when the process
\* was killed before an earlier checkpoint update and the pass ran over
\* blocks that had been handled already (no error injected, no overlapping
\* pass).
C4_ReplayIsIdempotent ==
    [][\A q \in Passes :
          (/\ pass[q].pc = "advance" /\ pass'[q].pc = "idle" /\ isRunning'
           /\ faults = 0 /\ overlaps = 0)
          => LET first == RunOnce(FirstBlock, indexer_state'[1],
                                  [merchants |-> <<>>, payment_intents |-> <<>>])
             IN /\ merchants' = first.merchants
                /\ \A p \in PaymentIds :
                      StatusOf(payment_intents', p) = StatusOf(first.payment_intents, p)
      ]_vars

\* C5: event_logs holds at most one row per dedup key.
C5_OneRowPerDedupKey ==
    \A b \in DOMAIN event_logs : event_logs[b] <= 1

\* some pass is between storeEventLog and the end of the handler of block b
Handling(b) ==
    \E q \in Passes : pass[q].log = b /\ pass[q].pc \in {"project", "total", "enqueue", "post"}

\* the projection shows the effect of the log of block b
EffectPresent(b) ==
    LET log == chain[b] IN
    CASE log.name = "MerchantRegistered" -> log.merchant \in DOMAIN merchants
      [] log.name = "PaymentIntentCreated" -> log.paymentId \in DOMAIN payment_intents
      [] OTHER -> TRUE

\* a delivery row exists for the log of block b and every active webhook
DeliveriesPresent(b) ==
    LET log == chain[b]
        m == WebhookMerchant(log, payment_intents)
    IN (WebhookEvent(log.name) # None /\ m # None)
       => \A i \in 1..Len(ActiveWebhooks(m)) :
             \E d \in 1..Len(webhook_deliveries) :
                /\ webhook_deliveries[d].config = ActiveWebhooks(m)[i]
                /\ webhook_deliveries[d].paymentId = log.paymentId
                /\ webhook_deliveries[d].eventType = WebhookEvent(log.name)

\* C6: outside the handling of a log, an event_logs row never exists without
\* the projection effect and the delivery rows of its event.
C6_StoreProjectEnqueueAtomic ==
    \A b \in 1..Len(chain) :
       (event_logs[b] > 0 /\ ~Handling(b))
       => (EffectPresent(b) /\ DeliveriesPresent(b))

\* pass p meets an error of the log query, of the block-timestamp query or
\* of a handler statement in this step
ErrorStep(p) ==
    /\ pass[p].pc \in {"getLogs", "getBlock", "project"}
    /\ pass'[p] # pass[p]
    /\ faults' = faults + 1

\* C7: an error during a batch ends the pass and leaves the checkpoint alone.
C7_ErrorAbortsPass ==
    [][\A p \in Passes :
          ErrorStep(p) => (pass'[p].pc = "idle" /\ indexer_state' = indexer_state)
      ]_vars

\* C8: the stored checkpoint never decreases.
C8_CheckpointMonotone ==
    [][indexer_state # <<>>
          => (indexer_state' # <<>> /\ indexer_state'[1] >= indexer_state[1])
      ]_vars

\* C9: at most one sync pass is in flight.
C9_SingleFlight ==
    Cardinality({q \in Passes : pass[q].pc # "idle"}) <= 1

\* the first block of a pass: the checkpoint is unset when indexer_state has no row
ClaimedStart(currentBlock) ==
    IF indexer_state = <<>>
    THEN (IF startBlock > 0 THEN startBlock ELSE currentBlock - lookbackWindow)
    ELSE indexer_state[1] + 1

\* C10: a pass starts at the configured start block (or the height less the
\* lookback window) when the checkpoint is unset, at checkpoint + 1 otherwise,
\* and does nothing when that start is above the height.
C10_StartOfPass ==
    [][\A p \in Passes :
          (pass[p].pc = "getBlockNumber" /\ pass'[p] # pass[p] /\ faults' = faults
           /\ isRunning')
          => IF ClaimedStart(Len(chain)) > Len(chain)
             THEN pass'[p].pc = "idle"
             ELSE /\ pass'[p].pc = "getLogs"
                  /\ pass'[p].fromBlock = ClaimedStart(Len(chain))
      ]_vars

\* ------------------------------------------- calls of verifySignature
\* SignSpec: a receiver calls verifySignature with a payload, a signature
\* string and a secret; nothing else moves.
serviceVars == <<ledgerVars, startBlock, dbVars, webhook_configs, procVars, workerVars,
                 faults, crashes, overlaps>>

Verify ==
    \E payload \in Payloads, signature \in Signatures, secret \in Secrets :
        /\ verify' = [payload |-> payload, signature |-> signature, secret |-> secret,
                      result |-> verifySignature(payload, signature, secret)]
        /\ UNCHANGED <<serviceVars, gateway, sync, polling>>

SignNext == Verify

SignSpec == Init /\ [][SignNext]_vars

\* ------------------------------------------- transactions of the contract
\* ContractSpec: every step is one mined transaction that did not revert, or
\* a block with a later timestamp.  A reverted transaction leaves the state
\* as it was, so it is no step.  The merchants of the ledger register and
\* create intents; every user may pay.
Mined(result) ==
    /\ result.error = None
    /\ gateway' = result.storage

Approve ==
    /\ \E sender \in Users : Mined(approve(gateway, sender))
    /\ UNCHANGED <<serviceVars, verify, sync, polling>>

RegisterMerchant ==
    /\ \E sender \in Merchants : Mined(registerMerchant(gateway, sender))
    /\ UNCHANGED <<serviceVars, verify, sync, polling>>

DeactivateMerchant ==
    /\ \E sender \in Merchants :
          /\ gateway.merchants[sender].isActive
          /\ Mined(deactivateMerchant(gateway, sender))
    /\ UNCHANGED <<serviceVars, verify, sync, polling>>

ReactivateMerchant ==
    /\ \E sender \in Merchants :
          /\ ~gateway.merchants[sender].isActive
          /\ Mined(reactivateMerchant(gateway, sender))
    /\ UNCHANGED <<serviceVars, verify, sync, polling>>

CreatePaymentIntent ==
    /\ \E sender \in Merchants, p \in GatewayPaymentIds, amount \in GatewayAmounts,
          expiryTimestamp \in 0..MaxTime :
          Mined(createPaymentIntent(gateway, sender, p, amount, expiryTimestamp))
    /\ UNCHANGED <<serviceVars, verify, sync, polling>>

ExecutePayment ==
    /\ \E sender \in Accounts, p \in GatewayPaymentIds :
          Mined(executePayment(gateway, sender, p))
    /\ UNCHANGED <<serviceVars, verify, sync, polling>>

RefundPayment ==
    /\ \E sender \in Accounts, p \in GatewayPaymentIds :
          Mined(refundPayment(gateway, sender, p))
    /\ UNCHANGED <<serviceVars, verify, sync, polling>>

CancelPaymentIntent ==
    /\ \E sender \in Accounts, p \in GatewayPaymentIds :
          Mined(cancelPaymentIntent(gateway, sender, p))
    /\ UNCHANGED <<serviceVars, verify, sync, polling>>

MarkPaymentExpired ==
    /\ \E sender \in Accounts, p \in GatewayPaymentIds :
          Mined(markPaymentExpired(gateway, sender, p))
    /\ UNCHANGED <<serviceVars, verify, sync, polling>>

SetPlatformFee ==
    /\ \E sender \in Accounts, newFeePercentage \in FeePercentages :
          /\ newFeePercentage # gateway.platformFeePercentage
          /\ Mined(setPlatformFee(gateway, sender, newFeePercentage))
    /\ UNCHANGED <<serviceVars, verify, sync, polling>>

Pause ==
    /\ \E sender \in Accounts : Mined(pause(gateway, sender))
    /\ UNCHANGED <<serviceVars, verify, sync, polling>>

Unpause ==
    /\ \E sender \in Accounts : Mined(unpause(gateway, sender))
    /\ UNCHANGED <<serviceVars, verify, sync, polling>>

\* block.timestamp of the next block
NextBlockTime ==
    /\ gateway.now < MaxTime
    /\ gateway' = [gateway EXCEPT !.now = @ + 1]
    /\ UNCHANGED <<serviceVars, verify, sync, polling>>

ContractNext ==
    \/ Approve
    \/ RegisterMerchant
    \/ DeactivateMerchant
    \/ ReactivateMerchant
    \/ CreatePaymentIntent
    \/ ExecutePayment
    \/ RefundPayment
    \/ CancelPaymentIntent
    \/ MarkPaymentExpired
    \/ SetPlatformFee
    \/ Pause
    \/ Unpause
    \/ NextBlockTime

ContractInit == Init /\ startBlock = 1

ContractSpec == ContractInit /\ [][ContractNext]_vars

\* ------------------------------------------- the batches of syncEvents
\* RangeSpec: one syncEvents call after another on a ledger of thousands of
\* blocks.  Only the ranges are followed: the inputs of a call are the
\* height of the ledger, the checkpoint and the configured start block; the
\* call records the batches it hands to processBlockRange and its calls of
\* updateLastIndexedBlock.
Heights == {1, 999, 1000, 1001, 2000, 2500}
LastIndexedBlocks == {0, 1, 1000, 1500}
ConfiguredStarts == {0, 1, 500}

\* syncEvents up to its loop
BeginSync ==
    /\ sync.pc \in {"idle", "returned", "done", "failed"}
    /\ \E currentBlock \in Heights, lastIndexedBlock \in LastIndexedBlocks,
          configured \in ConfiguredStarts :
          LET first == StartOfPass(lastIndexedBlock, configured, currentBlock) IN
          sync' = [pc |-> IF first > currentBlock THEN "returned" ELSE "loop",
                   startBlock |-> first, currentBlock |-> currentBlock,
                   fromBlock |-> first, batches |-> <<>>, written |-> <<>>]
    /\ UNCHANGED <<serviceVars, gateway, verify, polling>>

\* one turn of the loop: processBlockRange(fromBlock, toBlock) returns, or
\* its getLogs throws and syncEvents ends in its catch
ProcessBlockRange ==
    /\ sync.pc = "loop"
    /\ sync.fromBlock <= sync.currentBlock
    /\ \/ sync' = [sync EXCEPT !.pc = "failed"]
       \/ sync' = [sync EXCEPT
                      !.batches = Append(@, <<sync.fromBlock,
                                              ToBlock(sync.fromBlock, sync.currentBlock)>>),
                      !.fromBlock = @ + batchSize]
    /\ UNCHANGED <<serviceVars, gateway, verify, polling>>

\* the loop is left: updateLastIndexedBlock(currentBlock)
UpdateLastIndexedBlock ==
    /\ sync.pc = "loop"
    /\ sync.fromBlock > sync.currentBlock
    /\ sync' = [sync EXCEPT !.pc = "done", !.written = Append(@, sync.currentBlock)]
    /\ UNCHANGED <<serviceVars, gateway, verify, polling>>

RangeNext ==
    \/ BeginSync
    \/ ProcessBlockRange
    \/ UpdateLastIndexedBlock

RangeInit == Init /\ startBlock = 1

RangeSpec == RangeInit /\ [][RangeNext]_vars

\* ------------------------------------------- start() and stop()
\* LifecycleSpec: start() and stop() are called on one EventIndexer in any
\* order while the process lives.  Only the timers and the calls of
\* syncEvents are counted; what a pass does is followed in Spec.
MaxIntervals == 4
MaxStarting == 2
MaxSyncing == 4

lifecycleVars == <<ledgerVars, startBlock, dbVars, webhook_configs, timerSet, pass, workerVars,
                   faults, crashes, overlaps, gateway, verify, sync>>

\* start() up to `await this.syncEvents()`: returns at once when isRunning
StartCall ==
    /\ polling.starting < MaxStarting
    /\ IF isRunning
       THEN UNCHANGED <<isRunning, polling>>
       ELSE /\ isRunning' = TRUE
            /\ polling' = [polling EXCEPT !.starting = @ + 1]
    /\ UNCHANGED lifecycleVars

\* the initial sync of a start() returns: setInterval
SetInterval ==
    /\ polling.starting > 0
    /\ polling.intervals < MaxIntervals
    /\ polling' = [polling EXCEPT !.starting = @ - 1, !.intervals = @ + 1]
    /\ UNCHANGED <<lifecycleVars, isRunning>>

\* stop(): isRunning = false; no timer is cleared
StopCall ==
    /\ isRunning
    /\ isRunning' = FALSE
    /\ UNCHANGED <<lifecycleVars, polling>>

\* the callback of one of the intervals: syncEvents when isRunning
IntervalFires ==
    /\ polling.intervals > 0
    /\ isRunning
    /\ polling.syncing < MaxSyncing
    /\ polling' = [polling EXCEPT !.syncing = @ + 1]
    /\ UNCHANGED <<lifecycleVars, isRunning>>

\* a syncEvents call of a callback returns
SyncReturns ==
    /\ polling.syncing > 0
    /\ polling' = [polling EXCEPT !.syncing = @ - 1]
    /\ UNCHANGED <<lifecycleVars, isRunning>>

LifecycleNext ==
    \/ StartCall
    \/ SetInterval
    \/ StopCall
    \/ IntervalFires
    \/ SyncReturns

LifecycleInit == Init /\ startBlock = 1

LifecycleSpec == LifecycleInit /\ [][LifecycleNext]_vars

\* ------------------------------------------------ the API's read paths
\* The secret of a subscription is crypto.randomBytes(32): no step of the
\* service branches on it, so the store keeps it apart from the rows of
\* webhook_configs; secrets[i] is the secret of row i.
WebhookConfigRow(i, secrets) ==
    [id |-> i, merchant_address |-> webhook_configs[i].merchant, webhook_url |-> "url",
     secret |-> secrets[i], is_active |-> webhook_configs[i].isActive, created_at |-> 0]

\* SELECT * FROM webhook_configs WHERE merchant_address = ?
getWebhooksByMerchant(merchantAddress, secrets) ==
    SelectSeq([i \in DOMAIN webhook_configs |-> WebhookConfigRow(i, secrets)],
              LAMBDA row : row.merchant_address = merchantAddress)

\* reading a property of an object: undefined when the object has none of
\* that name
Property(object, name) == IF name \in DOMAIN object THEN object[name] ELSE "undefined"

\* the route answering with the rows as selected
sanitizedWebhooks_WholeRows(webhooks) == webhooks

sanitizedWebhooks(webhooks) ==
    [i \in DOMAIN webhooks |->
        [id |-> Property(webhooks[i], "id"),
         webhookUrl |-> Property(webhooks[i], "webhookUrl"),
         isActive |-> Property(webhooks[i], "isActive"),
         createdAt |-> Property(webhooks[i], "createdAt")]]

\* GET /merchants/:address/webhooks
GetMerchantWebhooks(address, secrets) ==
    [success |-> TRUE, data |-> sanitizedWebhooks(getWebhooksByMerchant(address, secrets))]

\* SELECT * FROM webhook_deliveries WHERE webhook_config_id = ?
getWebhookDeliveries(webhookConfigId) ==
    SelectSeq(webhook_deliveries, LAMBDA d : d.config = webhookConfigId)

\* GET /webhooks/:webhookId/deliveries
GetWebhookDeliveries(webhookId) ==
    [success |-> TRUE, data |-> getWebhookDeliveries(webhookId)]

\* GET /status
GetStatus ==
    [success |-> TRUE,
     lastIndexedBlock |-> IF indexer_state = <<>> THEN 0 ELSE indexer_state[1],
     totalMerchants |-> Cardinality(DOMAIN merchants),
     totalPayments |-> Cardinality(DOMAIN payment_intents),
     completedPayments |->
         Cardinality({p \in DOMAIN payment_intents : payment_intents[p].status = Completed})]

\* what the read routes answer when the secrets of the store are `secrets`
ReadPaths(secrets) ==
    [webhooks |-> [address \in Merchants |-> GetMerchantWebhooks(address, secrets)],
     deliveries |-> [webhookId \in 1..MaxWebhooks |-> GetWebhookDeliveries(webhookId)],
     status |-> GetStatus]

\* ------------------------------------------------- claims on the deliveries
Terminal == {"success", "failed"}

\* C11: no delivery has more than MAX_RETRY_ATTEMPTS attempts, and a delivery
\* whose status is success or failed is never written again.
C11_TerminalIsFinal ==
    [][\A id \in DOMAIN webhook_deliveries' :
          /\ webhook_deliveries'[id].attempts <= MAX_RETRY_ATTEMPTS
          /\ (id \in DOMAIN webhook_deliveries
                 /\ webhook_deliveries[id].status \in Terminal)
             => webhook_deliveries'[id] = webhook_deliveries[id]
      ]_vars

\* a callback of the retry worker selects delivery id in this step
Selected(id) ==
    \E w \in Callers :
       /\ w > 0 /\ calls[w].pc = "idle" /\ calls'[w].pc = "post"
       /\ \/ calls'[w].delivery = id
          \/ \E i \in 1..Len(calls'[w].queue) : calls'[w].queue[i] = id

\* C12 as stated: a delivery with MAX_RETRY_ATTEMPTS attempts has status
\* failed, and the retry worker never selects it.
C12_ExhaustedIsFailed ==
    [][\A id \in DOMAIN webhook_deliveries' :
          /\ webhook_deliveries'[id].attempts = MAX_RETRY_ATTEMPTS
             => webhook_deliveries'[id].status = "failed"
          /\ (id \in DOMAIN webhook_deliveries
                 /\ webhook_deliveries[id].attempts = MAX_RETRY_ATTEMPTS)
             => ~Selected(id)
      ]_vars

\* C12 as amended: a delivery with MAX_RETRY_ATTEMPTS attempts has status
\* failed or success (success when the last attempt succeeded), and the retry
\* worker never selects it.
C12_ExhaustedIsTerminal ==
    [][\A id \in DOMAIN webhook_deliveries' :
          /\ webhook_deliveries'[id].attempts = MAX_RETRY_ATTEMPTS
             => webhook_deliveries'[id].status \in Terminal
          /\ (id \in DOMAIN webhook_deliveries
                 /\ webhook_deliveries[id].attempts = MAX_RETRY_ATTEMPTS)
             => ~Selected(id)
      ]_vars

\* a delivery was answered with success at its fifth attempt while the
\* retry worker is selecting, and another one has failed five times
C12_FifthAttemptSettled ==
    /\ \E id \in DOMAIN webhook_deliveries :
          /\ webhook_deliveries[id].attempts = MAX_RETRY_ATTEMPTS
          /\ webhook_deliveries[id].status = "success"
    /\ \E id \in DOMAIN webhook_deliveries :
          /\ webhook_deliveries[id].attempts = MAX_RETRY_ATTEMPTS
          /\ webhook_deliveries[id].status = "failed"
    /\ \E w \in Callers : w > 0 /\ calls[w].pc = "post"

\* a request for delivery id is unanswered
InFlight(id) == \E c \in Callers : calls[c].pc = "post" /\ calls[c].delivery = id

\* the deliveries the scheduler is to select at second now
Due(id, now) ==
    /\ webhook_deliveries[id].status = "pending"
    /\ webhook_deliveries[id].attempts < MAX_RETRY_ATTEMPTS
    /\ \/ webhook_deliveries[id].nextRetryAt = Null
       \/ webhook_deliveries[id].nextRetryAt[1] <= now

\* C13: a callback of the retry worker selects exactly the deliveries that
\* are pending, have attempts left and have no retry time or one that has
\* come (stated for the deliveries no request is in flight for).
C13_SchedulerSelection ==
    [][clock' # clock
          => \A id \in DOMAIN webhook_deliveries :
                ~InFlight(id) => (Selected(id) <=> Due(id, clock'))
      ]_vars

\* caller c gets the answer of its request in this step
RespondStep(c) ==
    /\ calls[c].pc = "post" /\ calls'[c] # calls[c]
    /\ crashes' = crashes /\ clock' = clock

ClaimedBackoff == <<60, 300, 900, 3600, 7200>>

\* C14: after the k-th failed attempt of a pending delivery the retry time
\* is the time of the attempt plus the k-th backoff (the last one beyond the
\* table).
C14_BackoffTable ==
    [][\A c \in Callers :
          LET id == calls[c].delivery IN
          (/\ RespondStep(c)
           /\ webhook_deliveries[id].status = "pending"
           /\ webhook_deliveries'[id].status # "success")
          => LET k == webhook_deliveries'[id].attempts IN
             webhook_deliveries'[id].nextRetryAt =
                Some(clock + ClaimedBackoff[IF k <= Len(ClaimedBackoff) THEN k
                                            ELSE Len(ClaimedBackoff)])
      ]_vars

\* C15: with an endpoint that fails every request and no kill of the
\* process, a delivery is sent at most MAX_RETRY_ATTEMPTS times, is failed
\* with exactly MAX_RETRY_ATTEMPTS attempts and requests, and is not sent
\* once it is failed.
C15_FiveSendsThenFailed ==
    [][(endpoint = "down" /\ crashes' = 0)
          => \A id \in DOMAIN webhook_deliveries' :
                /\ received'[id] <= MAX_RETRY_ATTEMPTS
                /\ webhook_deliveries'[id].status = "failed"
                   => /\ webhook_deliveries'[id].attempts = MAX_RETRY_ATTEMPTS
                      /\ received'[id] = MAX_RETRY_ATTEMPTS
                /\ (id \in DOMAIN webhook_deliveries
                       /\ webhook_deliveries[id].status = "failed")
                   => received'[id] = received[id]
      ]_vars

DocumentedAttempts == 6

\* C16: with an endpoint that fails every request, a delivery is failed only
\* after the six attempts of the documentation.
C16_SixAttempts ==
    (endpoint = "down" /\ crashes = 0)
       => \A id \in DOMAIN webhook_deliveries :
             webhook_deliveries[id].status = "failed"
                => webhook_deliveries[id].attempts = DocumentedAttempts

\* ------------------------------------------------ claims on the handlers
\* the event name the deliveries of a ledger event are to carry
ClaimedEvent(name) ==
    CASE name = "PaymentIntentCreated" -> "payment.created"
      [] name = "PaymentCompleted" -> "payment.completed"
      [] name = "PaymentRefunded" -> "payment.refunded"
      [] name = "PaymentExpired" -> "payment.expired"
      [] name = "PaymentCancelled" -> "payment.cancelled"
      [] OTHER -> None

\* the deliveries of the table for a subscription, a payment and an event name
DeliveriesOf(table, config, p, eventType) ==
    {i \in DOMAIN table : /\ table[i].config = config
                          /\ table[i].paymentId = p
                          /\ table[i].eventType = eventType}

\* C17: a handled payment event gets exactly one delivery per subscription
\* of its merchant that is active at that moment: every row that is created
\* is pending with attempts 0 and no retry time, carries the event name of
\* its event, belongs to an active subscription of the event's merchant and
\* is the only row of its subscription for that event; merchant events
\* create no row.
C17_OneDeliveryPerEvent ==
    [][\A p \in Passes :
          LET log == chain[pass[p].log]
              n == Len(webhook_deliveries')
              d == webhook_deliveries'[n]
          IN /\ (pass[p].pc = "enqueue" /\ pass'[p].pc = "post")
                => /\ n = Len(webhook_deliveries) + 1
                   /\ d.status = "pending" /\ d.attempts = 0 /\ d.nextRetryAt = Null
                   /\ d.paymentId = log.paymentId
                   /\ d.eventType = ClaimedEvent(log.name)
                   /\ d.eventType # None
                   /\ webhook_configs[d.config].isActive
                   /\ webhook_configs[d.config].merchant =
                         cIntents[log.paymentId].merchant
                   /\ DeliveriesOf(webhook_deliveries', d.config, d.paymentId,
                                   d.eventType) = {n}
             /\ (/\ pass[p].pc = "project" /\ pass'[p].pc \in {"total", "enqueue"}
                 /\ log.paymentId \in DOMAIN payment_intents')
                => pass'[p].subs =
                      SeqOfSet({id \in DOMAIN webhook_configs :
                                  /\ webhook_configs[id].isActive
                                  /\ ClaimedEvent(log.name) # None
                                  /\ webhook_configs[id].merchant =
                                        cIntents[log.paymentId].merchant})
      ]_vars

\* C18: handling PaymentCompleted of a Pending payment sets its status,
\* payer, paidAt and platformFee, adds exactly the amount of the event to the
\* total of its merchant, changes no other payment and no other merchant
\* column, and creates a payment.completed delivery for each active webhook
\* of the merchant.
C18_CompletedApplied ==
    [][LET b == Len(chain')
           log == chain'[b]
           p == log.paymentId
           m == log.merchant
       IN (/\ Len(chain) < b
           /\ log.name = "PaymentCompleted"
           /\ p \in DOMAIN payment_intents /\ payment_intents[p].status = Pending
           /\ m \in DOMAIN merchants /\ ~IsReal(merchants[m].totalReceived))
          => /\ payment_intents'[p] =
                   [payment_intents[p] EXCEPT !.status = Completed,
                                              !.payer = Some(Args.payer),
                                              !.paidAt = Some(b),
                                              !.platformFee = Some(Args.platformFee)]
             /\ \A q \in DOMAIN payment_intents' \ {p} :
                   q \in DOMAIN payment_intents
                      /\ payment_intents'[q] = payment_intents[q]
             /\ merchants' = [merchants EXCEPT ![m].totalReceived = Plus(@, log.amount)]
             /\ \A id \in DOMAIN webhook_configs :
                   (webhook_configs[id].merchant = m /\ webhook_configs[id].isActive)
                   => \E i \in DOMAIN webhook_deliveries' \ DOMAIN webhook_deliveries :
                         /\ webhook_deliveries'[i].config = id
                         /\ webhook_deliveries'[i].paymentId = p
                         /\ webhook_deliveries'[i].eventType = "payment.completed"
      ]_vars

\* C19: payer, paidAt and platformFee of a payment are NULL until the
\* payment goes from Pending to Completed, that step sets them, and once set
\* they are never cleared or changed.
C19_PaidFieldsSetOnce ==
    [][\A p \in DOMAIN payment_intents :
          LET old == payment_intents[p]
              new == payment_intents'[p]
          IN /\ p \in DOMAIN payment_intents'
             /\ old.payer # Null
                => /\ new.payer = old.payer
                   /\ new.paidAt = old.paidAt
                   /\ new.platformFee = old.platformFee
             /\ old.payer = Null
                => \/ new.payer = Null /\ new.paidAt = Null /\ new.platformFee = Null
                   \/ /\ old.status = Pending /\ new.status = Completed
                      /\ new.payer # Null /\ new.paidAt # Null /\ new.platformFee # Null
      ]_vars

\* C20: handling MerchantRegistered for an address that has a merchant row
\* leaves the row as it is.
C20_RegisteredKeepsExistingRow ==
    [][\A p \in Passes :
          LET log == chain[pass[p].log] IN
          (/\ pass[p].pc = "project" /\ pass'[p].pc # "project"
           /\ log.name = "MerchantRegistered"
           /\ log.merchant \in DOMAIN merchants)
          => merchants'[log.merchant] = merchants[log.merchant]
      ]_vars

\* C21: the total of a merchant row never decreases: a step leaves it as it
\* is or adds to it the amount of a PaymentCompleted log of that merchant
\* that a pass is handling.
C21_TotalOnlyGrows ==
    [][\A m \in DOMAIN merchants :
          /\ m \in DOMAIN merchants'
          /\ \/ merchants'[m].totalReceived = merchants[m].totalReceived
             \/ \E p \in Passes :
                   LET log == chain[pass[p].log] IN
                   /\ pass[p].pc = "total"
                   /\ log.name = "PaymentCompleted" /\ log.merchant = m
                   /\ ~IsReal(merchants[m].totalReceived)
                   /\ merchants'[m].totalReceived =
                         Plus(merchants[m].totalReceived, log.amount)
      ]_vars

\* the pcs of a pass between the parsing of a log and the next log
LogPcs == {"getBlock", "project", "total", "enqueue", "post"}

\* C22: a log that fails to parse or belongs to no event of the ABI is
\* passed over without an error (the pass goes on, the database is as it
\* was), every other log of the batch is handed to handleEvent, the logs are
\* taken in the order of the batch, and no failure while one log is handled
\* ends the pass or drops a log behind it.
C22_BadLogIsSkipped ==
    [][\A p \in Passes :
          /\ (pass[p].pc = "advance" /\ pass[p].logs # <<>> /\ crashes' = crashes)
             => /\ pass'[p].log = Head(pass[p].logs)
                /\ pass'[p].logs = Tail(pass[p].logs)
                /\ \A i \in 1..Len(pass'[p].logs) : pass'[p].log < pass'[p].logs[i]
                /\ IF faults' # faults \/ chain[Head(pass[p].logs)].name \notin EventNames
                   THEN /\ pass'[p].pc = "advance"
                        /\ dbVars' = dbVars
                   ELSE pass'[p].pc = "getBlock"
          /\ (pass[p].pc \in LogPcs /\ crashes' = crashes)
             => /\ pass'[p].logs = pass[p].logs
                /\ pass'[p].pc \in LogPcs \cup {"advance"}
      ]_vars

\* a pass is handling a log after it passed over a log of no event of the
\* ABI and lost an earlier log of the batch to a throw
C22_HandlingAfterBadLogs ==
    \E p \in Passes :
       /\ pass[p].pc = "project" /\ faults = 1
       /\ \E b1, b2 \in pass[p].fromBlock .. pass[p].log - 1 :
             /\ b1 >= 1 /\ b2 >= 1
             /\ chain[b1].name \notin EventNames /\ event_logs[b1] = 0
             /\ chain[b2].name \in EventNames /\ event_logs[b2] = 0

\* ------------------------------------------------ claims on the signature
\* C23: verifySignature(p, generateSignature(p, s), s) is true, a signature
\* made from another payload or another secret is refused, and every call
\* returns a boolean, whatever the signature string.
C23_VerifyRoundTrip ==
    verify # NoVerify =>
        /\ verify.result \in {"true", "false"}
        /\ \A p \in Payloads, s \in Secrets :
              verify.signature = generateSignature(p, s) =>
                  (verify.result = "true" <=> (p = verify.payload /\ s = verify.secret))

\* ------------------------------------------------ claims on the read paths
\* C25: no read operation includes the secret of a subscription: two stores
\* that differ only in the secrets give the same answers on every read path.
C25_ReadPathsHideSecrets ==
    \A f, g \in [DOMAIN webhook_configs -> Secrets] : ReadPaths(f) = ReadPaths(g)

\* a subscription exists, deliveries were made for it, and the routes are read
C25_SubscriptionRead ==
    /\ webhook_configs # <<>>
    /\ GetWebhookDeliveries(1).data # <<>>
    /\ GetMerchantWebhooks("m1", [i \in DOMAIN webhook_configs |-> <<1>>]).data # <<>>

\* ------------------------------------------------- claims on the poller
\* C24: a pass of the poller never waits for a webhook HTTP call: no pass is
\* ever suspended in axios.post, the sends being made by the retry
\* scheduler alone.
C24_PassNeverAwaitsSend ==
    \A q \in Passes : pass[q].pc # "post"

\* ------------------------------------------------ claims on the contract
\* the status of intent p after a call with result r
StatusAfter(r, p) == r.storage.paymentIntents[p].status

\* the results of the calls that are none of executePayment, refundPayment,
\* cancelPaymentIntent and markPaymentExpired
OtherCalls ==
    UNION {{approve(gateway, sender), registerMerchant(gateway, sender),
            deactivateMerchant(gateway, sender), reactivateMerchant(gateway, sender),
            pause(gateway, sender), unpause(gateway, sender)} : sender \in Accounts}
    \cup {setPlatformFee(gateway, sender, fee) : sender \in Accounts, fee \in FeePercentages}
    \cup {createPaymentIntent(gateway, sender, p, amount, expiry) :
              sender \in Accounts, p \in GatewayPaymentIds,
              amount \in GatewayAmounts, expiry \in 0..MaxTime}

\* every call moves the status of an intent along the four transitions only,
\* and a reverted call leaves it as it is
TransitionsOnly ==
    \A sender \in Accounts, p \in DOMAIN gateway.paymentIntents :
        LET status == gateway.paymentIntents[p].status
            Moves(r, from, to) ==
                /\ StatusAfter(r, p) \in {status} \cup (IF status = from THEN {to} ELSE {})
                /\ r.error # None => StatusAfter(r, p) = status
        IN /\ Moves(executePayment(gateway, sender, p), Pending, Completed)
           /\ Moves(markPaymentExpired(gateway, sender, p), Pending, Expired)
           /\ Moves(cancelPaymentIntent(gateway, sender, p), Pending, Cancelled)
           /\ Moves(refundPayment(gateway, sender, p), Completed, Refunded)
           /\ \A r \in OtherCalls : StatusAfter(r, p) = status

\* C26, as stated: the status of an intent changes only along
\* Pending -> Completed, Pending -> Expired, Pending -> Cancelled and
\* Completed -> Refunded; on an intent that is not Pending executePayment,
\* cancelPaymentIntent and markPaymentExpired revert with
\* PaymentAlreadyProcessed, on one that is not Completed refundPayment reverts
\* with PaymentNotRefundable; a reverted call leaves the status unchanged.
C26_TransitionsAndErrors ==
    /\ TransitionsOnly
    /\ \A sender \in Accounts, p \in DOMAIN gateway.paymentIntents :
          LET status == gateway.paymentIntents[p].status IN
          /\ status # Pending =>
                /\ executePayment(gateway, sender, p).error = "PaymentAlreadyProcessed"
                /\ cancelPaymentIntent(gateway, sender, p).error = "PaymentAlreadyProcessed"
                /\ markPaymentExpired(gateway, sender, p).error = "PaymentAlreadyProcessed"
          /\ status # Completed =>
                refundPayment(gateway, sender, p).error = "PaymentNotRefundable"

\* C26, amended: the same transitions; the calls on an intent in another
\* status revert, with the named error once the checks of the modifiers have
\* passed: executePayment with EnforcedPause while the contract is paused,
\* cancelPaymentIntent and refundPayment with UnauthorizedAccess for a caller
\* who is not the merchant of the intent, refundPayment with EnforcedPause
\* while paused.
C26_TransitionsAndErrorsAfterModifiers ==
    /\ TransitionsOnly
    /\ \A sender \in Accounts, p \in DOMAIN gateway.paymentIntents :
          LET status == gateway.paymentIntents[p].status
              isMerchant == gateway.paymentIntents[p].merchant = sender
          IN
          /\ status # Pending =>
                /\ executePayment(gateway, sender, p).error =
                       IF gateway.paused THEN "EnforcedPause" ELSE "PaymentAlreadyProcessed"
                /\ cancelPaymentIntent(gateway, sender, p).error =
                       IF isMerchant THEN "PaymentAlreadyProcessed" ELSE "UnauthorizedAccess"
                /\ markPaymentExpired(gateway, sender, p).error = "PaymentAlreadyProcessed"
          /\ status # Completed =>
                refundPayment(gateway, sender, p).error =
                    IF ~isMerchant THEN "UnauthorizedAccess"
                    ELSE IF gateway.paused THEN "EnforcedPause"
                    ELSE "PaymentNotRefundable"

\* one intent was paid and refunded, the other cancelled or expired, and the
\* contract is paused
C26_RefundedAndClosed ==
    /\ DOMAIN gateway.paymentIntents = GatewayPaymentIds
    /\ gateway.paymentIntents["p1"].status = Refunded
    /\ gateway.paymentIntents["p2"].status \in {Cancelled, Expired}
    /\ gateway.paused

\* an intent becomes Expired by markPaymentExpired alone, which succeeds
\* only on a Pending intent after its expiry
ExpiredByMarkOnly ==
    \A sender \in Accounts, p \in DOMAIN gateway.paymentIntents :
        LET intent == gateway.paymentIntents[p]
            NotExpiring(r) == StatusAfter(r, p) = Expired => intent.status = Expired
        IN /\ markPaymentExpired(gateway, sender, p).error = None =>
                 /\ gateway.now > intent.expiryTimestamp
                 /\ intent.status = Pending
                 /\ StatusAfter(markPaymentExpired(gateway, sender, p), p) = Expired
           /\ NotExpiring(executePayment(gateway, sender, p))
           /\ NotExpiring(refundPayment(gateway, sender, p))
           /\ NotExpiring(cancelPaymentIntent(gateway, sender, p))
           /\ \A r \in OtherCalls : NotExpiring(r)

\* executePayment of a Pending intent after its expiry changes nothing
LateExecuteChangesNothing(sender, p) ==
    LET r == executePayment(gateway, sender, p) IN
    /\ r.error # None
    /\ r.storage = gateway
    /\ r.events = <<>>
    /\ r.transfers = <<>>

LatePending(p) ==
    /\ gateway.paymentIntents[p].status = Pending
    /\ gateway.now > gateway.paymentIntents[p].expiryTimestamp

\* C27, as stated: executePayment on a Pending intent whose expiry has
\* passed reverts with PaymentAlreadyExpired; the intent is still Pending, no
\* tokens have moved, no PaymentExpired event is recorded; an intent becomes
\* Expired only through a successful markPaymentExpired, which succeeds only
\* when block time > expiryTimestamp.
C27_LateExecuteReverts ==
    /\ ExpiredByMarkOnly
    /\ \A sender \in Accounts, p \in DOMAIN gateway.paymentIntents :
          LatePending(p) =>
              /\ LateExecuteChangesNothing(sender, p)
              /\ executePayment(gateway, sender, p).error = "PaymentAlreadyExpired"

\* C27, amended: the same, the error being PaymentAlreadyExpired while the
\* contract is not paused and EnforcedPause while it is paused.
C27_LateExecuteRevertsUnlessPaused ==
    /\ ExpiredByMarkOnly
    /\ \A sender \in Accounts, p \in DOMAIN gateway.paymentIntents :
          LatePending(p) =>
              /\ LateExecuteChangesNothing(sender, p)
              /\ executePayment(gateway, sender, p).error =
                     IF gateway.paused THEN "EnforcedPause" ELSE "PaymentAlreadyExpired"

\* the contract is not paused, one intent is Pending after its expiry and a
\* payer with balance and allowance could call executePayment; the other
\* intent was marked Expired
C27_LateIntent ==
    /\ ~gateway.paused
    /\ DOMAIN gateway.paymentIntents = GatewayPaymentIds
    /\ LatePending("p1")
    /\ gateway.merchants["m1"].isActive
    /\ "c1" \in gateway.approved
    /\ gateway.balanceOf["c1"] >= gateway.paymentIntents["p1"].amount
    /\ gateway.paymentIntents["p2"].status = Expired

\* C28: a successful executePayment of an intent of amount a under fee
\* percentage p (0..1000) debits the payer a, credits the fee collector
\* floor(a * p / 10000) and the merchant the rest, and its PaymentCompleted
\* event carries a and that fee.
C28_PaymentSplit ==
    \A sender \in Accounts, p \in DOMAIN gateway.paymentIntents :
        LET r == executePayment(gateway, sender, p)
            intent == gateway.paymentIntents[p]
            a == intent.amount
            fee == (a * gateway.platformFeePercentage) \div 10000
        IN r.error = None =>
              /\ a > 0
              /\ gateway.platformFeePercentage \in 0..1000
              /\ fee >= 0 /\ fee <= a
              /\ \A x \in Accounts :
                    r.storage.balanceOf[x] =
                        gateway.balanceOf[x]
                        - (IF x = sender THEN a ELSE 0)
                        + (IF x = intent.merchant THEN a - fee ELSE 0)
                        + (IF x = FeeCollector THEN fee ELSE 0)
              /\ r.events = <<Event("PaymentCompleted", p, intent.merchant, sender, a, fee)>>

\* an intent of 399 was paid under the fee of 1000: the collector holds 39
C28_PaidWithRoundedFee ==
    \E p \in DOMAIN gateway.paymentIntents :
        /\ gateway.paymentIntents[p].status = Completed
        /\ gateway.paymentIntents[p].amount = 399
        /\ gateway.paymentIntents[p].payer = "c1"
        /\ gateway.balanceOf[FeeCollector] = 39
        /\ gateway.balanceOf["m1"] = InitialBalance + 360

RECURSIVE SumOfAmounts(_)
SumOfAmounts(ps) ==
    IF ps = {} THEN 0
    ELSE LET p == CHOOSE q \in ps : TRUE
         IN gateway.paymentIntents[p].amount + SumOfAmounts(ps \ {p})

\* the intents of m for which executePayment succeeded
PaidIntents(m) ==
    {p \in DOMAIN gateway.paymentIntents :
        /\ gateway.paymentIntents[p].merchant = m
        /\ gateway.paymentIntents[p].status \in {Completed, Refunded}}

\* C29: totalPaymentsReceived of a merchant is the sum of the amounts of its
\* intents for which executePayment succeeded; only executePayment changes
\* it, by adding the amount; refundPayment, cancelPaymentIntent,
\* markPaymentExpired and reverted calls leave it as it is.
C29_TotalIsSumOfPaid ==
    \A m \in Accounts :
        LET total == gateway.merchants[m].totalPaymentsReceived
            Same(r) == r.storage.merchants[m].totalPaymentsReceived = total
        IN /\ total = SumOfAmounts(PaidIntents(m))
           /\ \A r \in OtherCalls : Same(r)
           /\ \A sender \in Accounts, p \in GatewayPaymentIds :
                 /\ Same(refundPayment(gateway, sender, p))
                 /\ Same(cancelPaymentIntent(gateway, sender, p))
                 /\ Same(markPaymentExpired(gateway, sender, p))
                 /\ LET r == executePayment(gateway, sender, p) IN
                    IF r.error = None /\ gateway.paymentIntents[p].merchant = m
                    THEN r.storage.merchants[m].totalPaymentsReceived =
                             total + gateway.paymentIntents[p].amount
                    ELSE Same(r)

\* both intents of m1 were paid and one of them refunded
C29_TwoPaidOneRefunded ==
    /\ PaidIntents("m1") = GatewayPaymentIds
    /\ gateway.paymentIntents["p1"].status = Refunded
    /\ gateway.paymentIntents["p2"].status = Completed
    /\ gateway.paymentIntents["p1"].amount # gateway.paymentIntents["p2"].amount
    /\ gateway.merchants["m1"].totalPaymentsReceived = 499

\* C30: while the contract is paused every payment operation reverts and
\* leaves intents and balances as they are.
C30_PausedChangesNothing ==
    gateway.paused =>
        \A sender \in Accounts, p \in GatewayPaymentIds :
            LET Refused(r) ==
                    /\ r.error # None
                    /\ r.storage.paymentIntents = gateway.paymentIntents
                    /\ r.storage.balanceOf = gateway.balanceOf
            IN /\ \A amount \in GatewayAmounts, expiry \in 0..MaxTime :
                     Refused(createPaymentIntent(gateway, sender, p, amount, expiry))
               /\ Refused(executePayment(gateway, sender, p))
               /\ Refused(refundPayment(gateway, sender, p))
               /\ Refused(cancelPaymentIntent(gateway, sender, p))
               /\ Refused(markPaymentExpired(gateway, sender, p))

\* the records the contract keeps of merchants and intents
Records(g) ==
    [merchants |-> g.merchants, merchantList |-> g.merchantList,
     paymentIntents |-> g.paymentIntents, merchantPayments |-> g.merchantPayments]

\* a sequence without two equal entries
NoRepeats(seq) == \A i, j \in DOMAIN seq : seq[i] = seq[j] => i = j

\* the ids pushed to merchantPayments, one per PaymentIntentCreated event
CreatedIds(g) ==
    UNION {{<<a, i>> : i \in 1..Len(g.merchantPayments[a])} : a \in Accounts}

\* merchantList holds one entry per MerchantRegistered event and
\* merchantPayments one per PaymentIntentCreated event: no address and no
\* payment id is there twice, and a duplicate registration emits nothing
NoSecondEvent ==
    /\ NoRepeats(gateway.merchantList)
    /\ \A x, y \in CreatedIds(gateway) :
          gateway.merchantPayments[x[1]][x[2]] = gateway.merchantPayments[y[1]][y[2]] => x = y
    /\ \A sender \in Accounts :
          gateway.merchants[sender].registered =>
              LET r == registerMerchant(gateway, sender) IN
              /\ r.error = "MerchantAlreadyRegistered"
              /\ Records(r.storage) = Records(gateway)
              /\ r.events = <<>>
    /\ \A sender \in Accounts, p \in DOMAIN gateway.paymentIntents,
          amount \in GatewayAmounts, expiry \in 0..MaxTime :
          LET r == createPaymentIntent(gateway, sender, p, amount, expiry) IN
          /\ r.error # None
          /\ Records(r.storage) = Records(gateway)
          /\ r.events = <<>>

\* C31, as stated: registerMerchant by a registered address reverts with
\* MerchantAlreadyRegistered and createPaymentIntent with an existing id
\* reverts with PaymentIntentAlreadyExists; the record, merchantList and
\* merchantPayments stay as they are, so no address has two MerchantRegistered
\* events and no payment id two PaymentIntentCreated events.
C31_UniqueOnChain ==
    /\ NoSecondEvent
    /\ \A sender \in Accounts, p \in DOMAIN gateway.paymentIntents,
          amount \in GatewayAmounts, expiry \in 0..MaxTime :
          createPaymentIntent(gateway, sender, p, amount, expiry).error =
              "PaymentIntentAlreadyExists"

\* C31, amended: the same, createPaymentIntent with an existing id reverting
\* with PaymentIntentAlreadyExists when the caller is an active merchant and
\* the contract is not paused, with MerchantNotActive for a caller who is not
\* an active merchant, and otherwise with EnforcedPause.
C31_UniqueOnChainAfterModifiers ==
    /\ NoSecondEvent
    /\ \A sender \in Accounts, p \in DOMAIN gateway.paymentIntents,
          amount \in GatewayAmounts, expiry \in 0..MaxTime :
          createPaymentIntent(gateway, sender, p, amount, expiry).error =
              IF ~gateway.merchants[sender].isActive THEN "MerchantNotActive"
              ELSE IF gateway.paused THEN "EnforcedPause"
              ELSE "PaymentIntentAlreadyExists"

\* m1 is registered and active, created both intents, and the contract is
\* not paused: a second registration and a second creation can be tried
C31_RegisteredWithIntents ==
    /\ gateway.merchantList = <<"m1">>
    /\ gateway.merchants["m1"].isActive
    /\ ~gateway.paused
    /\ Len(gateway.merchantPayments["m1"]) = 2
    /\ gateway.now < MaxTime

\* createPaymentIntent by a caller who is not an active merchant reverts
\* with MerchantNotActive, and executePayment of an intent of such a merchant
\* reverts
InactiveIsRefused ==
    \A m \in Accounts :
        ~gateway.merchants[m].isActive =>
            /\ \A p \in GatewayPaymentIds, amount \in GatewayAmounts, expiry \in 0..MaxTime :
                  LET r == createPaymentIntent(gateway, m, p, amount, expiry) IN
                  r.error = "MerchantNotActive" /\ r.storage = gateway
            /\ \A sender \in Accounts, p \in DOMAIN gateway.paymentIntents :
                  gateway.paymentIntents[p].merchant = m =>
                      LET r == executePayment(gateway, sender, p) IN
                      r.error # None /\ r.storage = gateway

\* after reactivateMerchant the merchant creates intents and is paid as any
\* active merchant: the calls succeed when their other checks pass
ReactivatedSucceeds ==
    \A m \in Accounts :
        (gateway.merchants[m].registered /\ ~gateway.merchants[m].isActive) =>
            LET g == reactivateMerchant(gateway, m).storage IN
            /\ reactivateMerchant(gateway, m).error = None
            /\ \A p \in GatewayPaymentIds, amount \in GatewayAmounts, expiry \in 0..MaxTime :
                  createPaymentIntent(g, m, p, amount, expiry).error = None
                      <=> (/\ ~g.paused
                           /\ p \notin DOMAIN g.paymentIntents
                           /\ amount # 0
                           /\ expiry > g.now)
            /\ \A sender \in Accounts, p \in DOMAIN g.paymentIntents :
                  g.paymentIntents[p].merchant = m =>
                      (executePayment(g, sender, p).error = None
                          <=> (/\ ~g.paused
                               /\ g.paymentIntents[p].status = Pending
                               /\ g.now <= g.paymentIntents[p].expiryTimestamp
                               /\ g.balanceOf[sender] >= g.paymentIntents[p].amount
                               /\ sender \in g.approved))

\* C32, as stated: a merchant that is not active can neither create payment
\* intents nor receive payments: createPaymentIntent by it and executePayment
\* of any of its intents revert with MerchantNotActive; after
\* reactivateMerchant both succeed again.
C32_InactiveMerchant ==
    /\ InactiveIsRefused
    /\ ReactivatedSucceeds
    /\ \A sender \in Accounts, p \in DOMAIN gateway.paymentIntents :
          ~gateway.merchants[gateway.paymentIntents[p].merchant].isActive =>
              executePayment(gateway, sender, p).error = "MerchantNotActive"

\* C32, amended: the same, executePayment of an intent of an inactive
\* merchant reverting with MerchantNotActive when the contract is not paused
\* and the intent is Pending and not past its expiry, and with EnforcedPause,
\* PaymentAlreadyProcessed or PaymentAlreadyExpired (the first that applies)
\* otherwise.
C32_InactiveMerchantAfterEarlierChecks ==
    /\ InactiveIsRefused
    /\ ReactivatedSucceeds
    /\ \A sender \in Accounts, p \in DOMAIN gateway.paymentIntents :
          ~gateway.merchants[gateway.paymentIntents[p].merchant].isActive =>
              executePayment(gateway, sender, p).error =
                  IF gateway.paused THEN "EnforcedPause"
                  ELSE IF gateway.paymentIntents[p].status # Pending
                  THEN "PaymentAlreadyProcessed"
                  ELSE IF gateway.now > gateway.paymentIntents[p].expiryTimestamp
                  THEN "PaymentAlreadyExpired"
                  ELSE "MerchantNotActive"

\* m1 was deactivated while its intent p1 is Pending and payable by c1
C32_DeactivatedWithPayableIntent ==
    /\ gateway.merchants["m1"].registered
    /\ ~gateway.merchants["m1"].isActive
    /\ ~gateway.paused
    /\ "p1" \in DOMAIN gateway.paymentIntents
    /\ "p2" \notin DOMAIN gateway.paymentIntents
    /\ gateway.paymentIntents["p1"].status = Pending
    /\ gateway.now <= gateway.paymentIntents["p1"].expiryTimestamp
    /\ gateway.now < MaxTime
    /\ "c1" \in gateway.approved

\* C33: refundPayment and cancelPaymentIntent by any address other than the
\* merchant of the intent revert with UnauthorizedAccess and change nothing;
\* a successful refundPayment moves the intent to Refunded and transfers the
\* refund from the merchant to the recorded payer.
C33_OnlyTheMerchant ==
    \A sender \in Accounts, p \in GatewayPaymentIds :
        LET refund == refundPayment(gateway, sender, p)
            cancel == cancelPaymentIntent(gateway, sender, p)
            isMerchant == /\ p \in DOMAIN gateway.paymentIntents
                          /\ gateway.paymentIntents[p].merchant = sender
        IN /\ ~isMerchant =>
                 /\ refund = Reverted(gateway, "UnauthorizedAccess")
                 /\ cancel = Reverted(gateway, "UnauthorizedAccess")
           /\ cancel.error = None => isMerchant
           /\ refund.error = None =>
                 LET intent == gateway.paymentIntents[p] IN
                 /\ isMerchant
                 /\ intent.status = Completed
                 /\ StatusAfter(refund, p) = Refunded
                 /\ Len(refund.transfers) = 1
                 /\ refund.transfers[1].from = intent.merchant
                 /\ refund.transfers[1].to = intent.payer
                 /\ intent.payer \in Accounts
                 /\ \A x \in Accounts :
                       refund.storage.balanceOf[x] =
                           gateway.balanceOf[x]
                           - (IF x = intent.merchant THEN refund.transfers[1].value ELSE 0)
                           + (IF x = intent.payer THEN refund.transfers[1].value ELSE 0)

\* m1 refunded p1 to its payer c1, and p2 of m1 is Completed: c1, who is not
\* its merchant, may try to refund or cancel it
C33_RefundedToPayer ==
    /\ DOMAIN gateway.paymentIntents = GatewayPaymentIds
    /\ gateway.paymentIntents["p1"].status = Refunded
    /\ gateway.paymentIntents["p1"].payer = "c1"
    /\ gateway.paymentIntents["p2"].status = Completed
    /\ "c1" \in gateway.approved
    /\ ~gateway.paused

\* C39: refundPayment transfers to the payer the sum the merchant received
\* from executePayment of that payment, whatever setPlatformFee did between
\* the two, and PaymentRefunded carries the sum transferred.
C39_RefundIsWhatWasReceived ==
    \A payer \in Accounts, p \in DOMAIN gateway.paymentIntents :
        LET paid == executePayment(gateway, payer, p)
            merchant == gateway.paymentIntents[p].merchant
            AfterFee(g) == {g} \cup {setPlatformFee(g, Owner, fee).storage :
                                         fee \in FeePercentages}
        IN paid.error = None =>
              \A g \in AfterFee(paid.storage) :
                  LET refund == refundPayment(g, merchant, p) IN
                  refund.error = None =>
                      /\ refund.transfers =
                             <<[from |-> merchant, to |-> payer,
                                value |-> paid.transfers[1].value]>>
                      /\ refund.events[1].amount = refund.transfers[1].value

\* ------------------------------------------------ claims on the batches
\* C34: in a syncEvents call with start <= currentHeight the batches handed
\* to processBlockRange are consecutive, ascending, at most 1000 blocks long
\* and pairwise disjoint; when the loop is through they cover every block of
\* [start, currentHeight] exactly once, and the checkpoint is written once,
\* to currentHeight, after the last batch.
C34_BatchesCoverRange ==
    LET batches == sync.batches
        n == Len(batches)
    IN sync.pc \in {"loop", "done", "failed"} =>
          /\ sync.startBlock <= sync.currentBlock
          /\ \A i \in 1..n :
                /\ batches[i][1] <= batches[i][2]
                /\ batches[i][2] - batches[i][1] + 1 <= 1000
                /\ batches[i][2] <= sync.currentBlock
                /\ batches[i][1] = IF i = 1 THEN sync.startBlock ELSE batches[i - 1][2] + 1
          /\ \A i, j \in 1..n : i < j => batches[i][2] < batches[j][1]
          /\ sync.pc # "done" => sync.written = <<>>
          /\ sync.pc = "done" =>
                /\ n >= 1
                /\ \A b \in sync.startBlock..sync.currentBlock :
                      Cardinality({i \in 1..n : batches[i][1] <= b /\ b <= batches[i][2]}) = 1
                /\ sync.written = <<sync.currentBlock>>

\* a call went through three batches and wrote the checkpoint
C34_ThreeBatchesDone ==
    /\ sync.pc = "done"
    /\ Len(sync.batches) = 3
    /\ sync.batches[1][2] - sync.batches[1][1] = 999

\* ------------------------------------------------ claims on the checkpoint
\* C35: whenever the checkpoint is c, every log of an event of the ABI in a
\* block from the first start block to c is in the event store and its
\* effect is in the projection, also when handling an event failed during
\* the pass that wrote the checkpoint.
C35_NothingMissingBelowCheckpoint ==
    indexer_state # <<>> =>
        \A b \in 1..Len(chain) :
            (/\ FirstBlock <= b /\ b <= indexer_state[1]
             /\ chain[b].name \in EventNames)
            => (event_logs[b] > 0 /\ EffectPresent(b))

\* ------------------------------------------------ claims on settling
\* C36: every webhook_deliveries row that is created reaches status success
\* or failed in the end, the callbacks of the retry worker going on and the
\* process being killed and restarted at any point.
C36_EveryDeliverySettles ==
    \A id \in 1..MaxDeliveries :
        (id \in DOMAIN webhook_deliveries)
            ~> (/\ id \in DOMAIN webhook_deliveries
                /\ webhook_deliveries[id].status \in {"success", "failed"})

\* C37: no delivery is being sent by two sendWebhook calls at the same time,
\* also when a callback of the retry worker fires while the loop of an
\* earlier one is still awaiting its sends.
C37_OneSendAtATime ==
    \A id \in DOMAIN webhook_deliveries :
        Cardinality({c \in Callers : calls[c].pc = "post" /\ calls[c].delivery = id}) <= 1

\* ------------------------------------------------ claims on start and stop
\* C38: after any sequence of start() and stop() calls at most one interval
\* timer drives syncEvents, a start() while running starts nothing, and
\* between a stop() and the next start() no pass begins.
C38_OneTimerOnePoller ==
    [][/\ polling'.intervals <= 1
       /\ isRunning /\ isRunning' => polling'.starting <= polling.starting
       /\ ~isRunning /\ ~isRunning' => polling'.syncing <= polling.syncing
      ]_vars

====
